---- MODULE Spec2Model ----
(***************************************************************************)
(* FB BUS connector: the orchestration loop of FbBusConnector              *)
(* (connector.py), the ApiV1Pairing state machine (pairing/apiv1.py) and   *)
(* the ack-wait / poll of PjonClient (clients/pjon.py).                    *)
(*                                                                         *)
(* The program is single threaded.  Every public operation is one action.  *)
(* The handlers are written as operators from a world record (all the      *)
(* program's state) to the SET of worlds the handler can end in, so that a *)
(* handler that calls other handlers is their sequential composition and   *)
(* every choice the code leaves open (set.pop(), set iteration order, the  *)
(* Link's answers, the time an ack-wait takes) is a member of the set.     *)
(***************************************************************************)
EXTENDS Integers, Sequences, FiniteSets, TLC

(***************************************************************************)
(* Program constants (apiv1.py:88-97)                                      *)
(***************************************************************************)
MAX_SEARCHING_ATTEMPTS == 5
MAX_TRANSMIT_ATTEMPTS == 5
MAX_TOTAL_TRANSMIT_ATTEMPTS == 100
SEARCHING_DELAY == 2
MAX_PAIRING_DELAY == 5
BROADCAST_WAITING_DELAY == 2
ADDRESS_NOT_ASSIGNED == 255

(***************************************************************************)
(* Bounds of the model                                                     *)
(***************************************************************************)
\* capacity of the receiver queue and of the consumer queue
MaxQueue == 2
\* the number of work items one inbound report frame hands to the consumer
MaxItems == 2
\* largest number of packets the Link reports as still to be sent
MaxPending == 1

(***************************************************************************)
(* Value spaces                                                            *)
(***************************************************************************)
\* Python's None for strings / integers of the model
None == "None"
NoAddress == 0 - 1

\* devices that can answer a discovery broadcast (serial numbers)
Serials == {"AAA", "BBB"}
\* devices the Registry holds from the start (scenario S3: addresses 1 and 2 held)
KnownDevices == {"X1", "X2"}
DeviceIds == Serials \cup KnownDevices

RegisterTypes == {"INPUT", "OUTPUT", "ATTRIBUTE", "SETTING"}

\* the number of registers of each kind a device advertises in its discovery reply
RegistersSize(sn, type) ==
    IF sn = "AAA" THEN (IF type = "INPUT" THEN 2 ELSE IF type = "SETTING" THEN 0 ELSE 1)
    ELSE IF sn = "BBB" THEN (IF type \in {"INPUT", "SETTING"} THEN 1 ELSE 0)
    ELSE (IF type \in {"INPUT", "OUTPUT"} THEN 1 ELSE 0)

\* the clients the connector has configured (Client proxy)
Clients == {"c1", "c2"}
\* the values enable() is given as client_id: None, or a list of two ids
NoClientId == [is_list |-> FALSE, ids |-> <<>>]
ClientIdChoices == {NoClientId, [is_list |-> TRUE, ids |-> <<"c1", "c2">>]}

\* the values write_register_value and broadcast_value are given
ValidValues == {"v1"}
Values == ValidValues \cup {"bad"}
\* the register ids write_register_value is given
RegisterIds == {<<"reg", "X1", "INPUT", 0>>, <<"reg", "X1", "OUTPUT", 0>>,
                <<"reg", "X9", "INPUT", 0>>}

NoDevice == [client_id |-> None, serial_number |-> None, address |-> ADDRESS_NOT_ASSIGNED]

Min(a, b) == IF a < b THEN a ELSE b

\* sequential composition of set-valued handlers: of the worlds a statement can
\* end in, those in which an exception is propagating skip the statements that
\* follow, the others go on
Escaped(S) == {w \in S : w.obs.escaped}
Alive(S) == {w \in S : ~w.obs.escaped}

VARIABLES
    pairing,             \* the fields of ApiV1Pairing
    clock,               \* time.time() relative to last_request_send_timestamp
    registry,            \* DevicesRegistry and RegistersRegistry
    stopped,             \* FbBusConnector.__stopped
    packets_to_be_sent,  \* FbBusConnector.__packets_to_be_sent
    receiver_queue,      \* frames handed to Receiver.on_message, not yet handled
    consumer_queue,      \* number of work items queued in the Consumer
    env,                 \* what the bus and the Link can do (fixed in a behaviour)
    frames_sent,         \* history: frames handed to the Link since enable()
    session,             \* history: the devices found and asked since enable()
    codec,               \* the frame on the wire and what PjonClient made of it
    obs                  \* history: what the last operation did

vars == <<pairing, clock, registry, stopped, packets_to_be_sent,
          receiver_queue, consumer_queue, env, frames_sent, session, codec, obs>>

World ==
    [pairing |-> pairing, clock |-> clock, registry |-> registry, stopped |-> stopped,
     packets_to_be_sent |-> packets_to_be_sent, receiver_queue |-> receiver_queue,
     consumer_queue |-> consumer_queue, env |-> env, frames_sent |-> frames_sent,
     session |-> session, obs |-> obs]

Install(w) ==
    /\ pairing' = w.pairing
    /\ clock' = w.clock
    /\ registry' = w.registry
    /\ stopped' = w.stopped
    /\ packets_to_be_sent' = w.packets_to_be_sent
    /\ receiver_queue' = w.receiver_queue
    /\ consumer_queue' = w.consumer_queue
    /\ env' = w.env
    /\ frames_sent' = w.frames_sent
    /\ session' = w.session
    /\ obs' = w.obs
    /\ UNCHANGED codec

(***************************************************************************)
(* History of the last operation.  op: the operation; calls: the           *)
(* components Connector.loop() invoked, in order; sent: the frames handed  *)
(* to the Link; escaped: an exception left the operation; enabled_seen and *)
(* gate: Pairing.is_enabled() and __packets_to_be_sent as Connector.loop() *)
(* read them at line 245/251; caught: PjonClient.handle caught a Link      *)
(* error; running: the connector was not stopped when the operation        *)
(* began; target: the register id the operation was given; result: the     *)
(* value returned (for set_actual_value: the value given); events: the     *)
(* ActualValueChanged events emitted; cleared: a pending expected value    *)
(* was cleared; requests: the requests the Publisher emitted; gaps: for     *)
(* each SEARCH broadcast that was not the first request since the pointers *)
(* were reset, the seconds since the last request; popped: the devices      *)
(* discover_device() took from found_devices, with the address each was    *)
(* given; lost: the device Pairing.loop() gave up, with its counters;       *)
(* capped: Pairing.loop() found total_attempts at its maximum.             *)
(***************************************************************************)
NewObs(op) ==
    [op |-> op, calls |-> <<>>, sent |-> <<>>, escaped |-> FALSE,
     caught |-> FALSE, enabled_seen |-> FALSE, gate |-> 0, running |-> FALSE,
     target |-> <<>>, result |-> None, events |-> 0, cleared |-> FALSE,
     requests |-> <<>>, gaps |-> <<>>, popped |-> <<>>, lost |-> <<>>,
     capped |-> FALSE]

\* session.found: the serial numbers append_device was given since enable();
\* session.order: the same, in the order of their first discovery reply;
\* session.asked: the serial numbers an enrollment command was sent for;
\* session.searches: the SEARCH broadcasts made; session.popped: the serial
\* numbers discover_device() took from found_devices; session.written: the
\* (serial number, address) pairs of the WRITE_ADDRESS frames sent;
\* session.acks: the (serial number, command) pairs of the replies recorded
\* for a device since it was last taken from found_devices; session.lost: the
\* serial numbers of the devices Pairing.loop() gave up; session.finished: the
\* serial numbers of the devices whose reply to PAIRING_FINISHED was recorded
NewSession ==
    [found |-> {}, order |-> <<>>, asked |-> {}, searches |-> 0, popped |-> {},
     written |-> {}, acks |-> {}, lost |-> {}, finished |-> {}]

Call(w, name) == [w EXCEPT !.obs.calls = Append(@, name)]

\* the cap of the frames_sent history counter
FramesCap == MAX_TOTAL_TRANSMIT_ATTEMPTS + 1

(***************************************************************************)
(* Registry (registry/model.py is not part of the sources: modelled from   *)
(* the specification, section 4.3)                                         *)
(***************************************************************************)
NoRecord == [address |-> ADDRESS_NOT_ASSIGNED, state |-> None]

\* DevicesRegistry.get_by_id: the record of the device, NoRecord when there is none
get_by_id(w, device_id) == w.registry.devices[device_id]

\* the addresses held: those of the devices followed one by one, and those of
\* the other devices of the Registry (registry.others)
HeldAddresses(w) ==
    {w.registry.devices[d].address : d \in {x \in DeviceIds : w.registry.devices[x] # NoRecord}}
    \cup w.registry.others

\* variant: the address after the highest one held
find_free_address_after_last(w) ==
    LET last == CHOOSE a \in HeldAddresses(w) \cup {0} :
                    \A b \in HeldAddresses(w) : b <= a
    IN  IF last >= 253 THEN NoAddress ELSE last + 1

\* DevicesRegistry.find_free_address: the smallest address of 1..253 no device holds
find_free_address(w) ==
    LET free == (1..253) \ HeldAddresses(w)
    IN  IF free = {} THEN NoAddress
        ELSE CHOOSE a \in free : \A b \in free : a <= b

\* DevicesRegistry.set_state
set_state(w, device_id, state) ==
    IF w.registry.devices[device_id] = NoRecord THEN w
    ELSE [w EXCEPT !.registry.devices[device_id].state = state]

\* RegistersRegistry.get_by_address: the registers at (device, type, address)
get_by_address(w, device_id, type, address) ==
    {r \in w.registry.registers :
        r.device = device_id /\ r.type = type /\ r.address = address}

(***************************************************************************)
(* ApiV1Pairing                                                            *)
(***************************************************************************)
\* variant: the commands recorded as finished are kept for the next device
reset_device_pointers_keeps_finished(w) ==
    [w EXCEPT !.pairing.pairing_device = NoDevice,
              !.pairing.pairing_device_registers = {},
              !.pairing.pairing_cmd = "WRITE_ADDRESS",
              !.pairing.waiting_for_packet = None,
              !.pairing.attempts = 0,
              !.pairing.total_attempts = 0,
              !.pairing.processing_register_address = NoAddress,
              !.pairing.processing_register_type = None]

reset_device_pointers(w) ==
    [w EXCEPT !.pairing.pairing_device = NoDevice,
              !.pairing.pairing_device_registers = {},
              !.pairing.pairing_cmd = "WRITE_ADDRESS",
              !.pairing.waiting_for_packet = None,
              !.pairing.attempts = 0,
              !.pairing.total_attempts = 0,
              !.pairing.processing_register_address = NoAddress,
              !.pairing.processing_register_type = None,
              !.pairing.finished_cmd = {}]

\* __last_request_send_timestamp = 0.0: time.time() - 0.0 exceeds every delay
reset_pointers(w) ==
    reset_device_pointers(
        [w EXCEPT !.pairing.found_devices = {},
                  !.clock = [zero |-> TRUE, age |-> MAX_PAIRING_DELAY],
                  !.pairing.broadcasting_search_finished = FALSE])

enable(w, client_id) ==
    reset_pointers([w EXCEPT !.pairing.client_id = client_id,
                             !.pairing.pairing_enabled = TRUE,
                             !.frames_sent = 0,
                             !.session = NewSession])

\* variant: the pointers are reset, pairing stays enabled
disable_stays_enabled(w) == reset_pointers(w)

disable(w) == reset_pointers([w EXCEPT !.pairing.pairing_enabled = FALSE])

is_enabled(w) == w.pairing.pairing_enabled = TRUE

\* variant: a discovery reply also restarts the count of the SEARCH broadcasts
append_device_restarts_search(w, client_id, serial_number, device_address) ==
    [w EXCEPT !.pairing.waiting_for_packet = None,
              !.pairing.attempts = 0,
              !.session.found = @ \cup {serial_number},
              !.session.order = IF serial_number \in w.session.found
                                THEN @ ELSE Append(@, serial_number),
              !.pairing.found_devices =
                  IF \E record \in @ : record.client_id = client_id
                                        /\ record.serial_number = serial_number
                  THEN @
                  ELSE @ \cup {[client_id |-> client_id, serial_number |-> serial_number,
                                address |-> device_address]}]

\* append_device: the record is added unless one with the same client id and
\* serial number is there; in both cases the awaited packet is forgotten
append_device(w, client_id, serial_number, device_address) ==
    LET w1 == [w EXCEPT !.pairing.waiting_for_packet = None,
                        !.session.found = @ \cup {serial_number},
                        !.session.order = IF serial_number \in w.session.found
                                          THEN @ ELSE Append(@, serial_number)]
        in_register == {record \in w1.pairing.found_devices :
                          record.client_id = client_id
                          /\ record.serial_number = serial_number}
    IN  IF in_register # {} THEN w1
        ELSE [w1 EXCEPT !.pairing.found_devices =
                 @ \cup {[client_id |-> client_id, serial_number |-> serial_number,
                          address |-> device_address]}]

\* append_input_register, append_output_register, append_attribute,
\* append_setting: the record with this id is replaced
append_register(w, register_id, type, address, data_type) ==
    [w EXCEPT !.pairing.pairing_device_registers =
        {r \in @ : r.id # register_id}
        \cup {[id |-> register_id, type |-> type, address |-> address,
               data_type |-> data_type]}]

\* variant: the awaited packet is not cleared
append_pairing_cmd_keeps_waiting(w, command) ==
    [w EXCEPT !.session.acks = @ \cup {<<w.pairing.pairing_device.serial_number, command>>},
              !.session.finished = IF command = "PAIRING_FINISHED"
                                   THEN @ \cup {w.pairing.pairing_device.serial_number}
                                   ELSE @,
              !.pairing.finished_cmd = @ \cup {command},
              !.pairing.attempts = 0]

append_pairing_cmd(w, command) ==
    [w EXCEPT !.session.acks = @ \cup {<<w.pairing.pairing_device.serial_number, command>>},
              !.session.finished = IF command = "PAIRING_FINISHED"
                                   THEN @ \cup {w.pairing.pairing_device.serial_number}
                                   ELSE @,
              !.pairing.finished_cmd = @ \cup {command},
              !.pairing.waiting_for_packet = None,
              !.pairing.attempts = 0]

has_registers_to_init(w) ==
    \E r \in w.pairing.pairing_device_registers : r.data_type = "UNKNOWN"

\* The first register with data_type UNKNOWN the iteration over the set meets:
\* of INPUT or OUTPUT if there is one, else ATTRIBUTE, else SETTING.  The order
\* in which Python iterates over a set of records is not fixed.
NextRegistersForInit(w) ==
    LET unknown(types) == {r \in w.pairing.pairing_device_registers :
                              r.data_type = "UNKNOWN" /\ r.type \in types}
    IN  IF unknown({"INPUT", "OUTPUT"}) # {} THEN unknown({"INPUT", "OUTPUT"})
        ELSE IF unknown({"ATTRIBUTE"}) # {} THEN unknown({"ATTRIBUTE"})
        ELSE unknown({"SETTING"})

move_to_next_register_for_init(w) ==
    LET w1 == [w EXCEPT !.pairing.processing_register_type = None,
                        !.pairing.processing_register_address = NoAddress]
    IN  IF NextRegistersForInit(w1) = {} THEN {w1}
        ELSE {[w1 EXCEPT !.pairing.processing_register_type = r.type,
                         !.pairing.processing_register_address = r.address,
                         !.pairing.waiting_for_packet = None,
                         !.pairing.attempts = 0] : r \in NextRegistersForInit(w1)}

\* __configure_registers, __configure_attributes, __configure_settings: one record
\* per address 0..size-1, data_type UNKNOWN, with the id of the Registry's
\* register at that place or a new uuid4
RegisterId(w, device_id, type, address) ==
    IF get_by_address(w, device_id, type, address) # {}
    THEN (CHOOSE r \in get_by_address(w, device_id, type, address) : TRUE).id
    ELSE <<"uuid4", device_id, type, address>>

\* variant: every record gets a new uuid4
configure_registers_new_ids(w, device_id, registers_size, registers_type) ==
    [w EXCEPT !.pairing.pairing_device_registers =
        @ \cup {[id |-> <<"uuid4", device_id, registers_type, i>>,
                 type |-> registers_type, address |-> i, data_type |-> "UNKNOWN"]
                : i \in 0..(registers_size - 1)}]

configure_registers(w, device_id, registers_size, registers_type) ==
    [w EXCEPT !.pairing.pairing_device_registers =
        {r \in @ : ~(\E i \in 0..(registers_size - 1) :
                        r.id = RegisterId(w, device_id, registers_type, i))}
        \cup {[id |-> RegisterId(w, device_id, registers_type, i),
               type |-> registers_type, address |-> i, data_type |-> "UNKNOWN"]
              : i \in 0..(registers_size - 1)}]

ConfigureAll(w) ==
    LET sn == w.pairing.pairing_device.serial_number
        w1 == configure_registers(w, sn, RegistersSize(sn, "INPUT"), "INPUT")
        w2 == configure_registers(w1, sn, RegistersSize(sn, "OUTPUT"), "OUTPUT")
        w3 == configure_registers(w2, sn, RegistersSize(sn, "ATTRIBUTE"), "ATTRIBUTE")
    IN  configure_registers(w3, sn, RegistersSize(sn, "SETTING"), "SETTING")

RECURSIVE discover_device(_)

\* variant: a device unknown to the Registry keeps the address it was found with
discover_device_keeps_address(w) ==
    LET w1 == reset_device_pointers(w)
    IN  IF w1.pairing.found_devices = {} THEN {disable(w1)}
        ELSE UNION {
            LET w2 == [w1 EXCEPT !.pairing.found_devices = @ \ {d},
                                 !.pairing.pairing_device = d,
                                 !.pairing.attempts = 0,
                                 !.pairing.total_attempts = 0,
                                 !.session.popped = @ \cup {d.serial_number},
                                 !.session.acks = {a \in @ : a[1] # d.serial_number}]
                device_record == get_by_id(w2, d.serial_number)
            IN  IF device_record = NoRecord
                     \/ device_record.address = ADDRESS_NOT_ASSIGNED
                THEN {ConfigureAll(x) : x \in {
                        set_state([w2 EXCEPT !.obs.popped = Append(@,
                                       [sn |-> d.serial_number, address |-> d.address,
                                        skipped |-> FALSE])],
                                  d.serial_number, "PAIRING")}}
                ELSE {ConfigureAll(x) : x \in {
                        set_state([w2 EXCEPT !.pairing.pairing_device.address =
                                                 device_record.address,
                                             !.obs.popped = Append(@,
                                                 [sn |-> d.serial_number,
                                                  address |-> device_record.address,
                                                  skipped |-> FALSE])],
                                  d.serial_number, "PAIRING")}}
            : d \in w1.pairing.found_devices}

\* discover_device: set.pop() takes an arbitrary record of found_devices
discover_device(w) ==
    LET w1 == reset_device_pointers(w)
    IN  IF w1.pairing.found_devices = {} THEN {disable(w1)}
        ELSE UNION {
            LET w2 == [w1 EXCEPT !.pairing.found_devices = @ \ {d},
                                 !.pairing.pairing_device = d,
                                 !.pairing.attempts = 0,
                                 !.pairing.total_attempts = 0,
                                 !.session.popped = @ \cup {d.serial_number},
                                 !.session.acks = {a \in @ : a[1] # d.serial_number}]
                device_record == get_by_id(w2, d.serial_number)
                free_address == find_free_address(w2)
            IN  IF device_record = NoRecord
                     \/ device_record.address = ADDRESS_NOT_ASSIGNED
                THEN IF free_address = NoAddress
                     THEN discover_device(
                            [w2 EXCEPT !.obs.popped = Append(@,
                                [sn |-> d.serial_number, address |-> d.address,
                                 skipped |-> TRUE])])
                     ELSE {ConfigureAll(x) : x \in {
                             set_state([w2 EXCEPT !.pairing.pairing_device.address =
                                                      free_address,
                                                  !.obs.popped = Append(@,
                                                      [sn |-> d.serial_number,
                                                       address |-> free_address,
                                                       skipped |-> FALSE])],
                                       d.serial_number, "PAIRING")}}
                ELSE {ConfigureAll(x) : x \in {
                        set_state([w2 EXCEPT !.pairing.pairing_device.address =
                                                 device_record.address,
                                             !.obs.popped = Append(@,
                                                 [sn |-> d.serial_number,
                                                  address |-> device_record.address,
                                                  skipped |-> FALSE])],
                                  d.serial_number, "PAIRING")}}
            : d \in w1.pairing.found_devices}

move_to_next_cmd(w) ==
    IF "WRITE_ADDRESS" \notin w.pairing.finished_cmd
    THEN {[w EXCEPT !.pairing.pairing_cmd = "WRITE_ADDRESS"]}
    ELSE IF "PROVIDE_REGISTER_STRUCTURE" \notin w.pairing.finished_cmd
            /\ has_registers_to_init(w)
    THEN {[x EXCEPT !.pairing.pairing_cmd = "PROVIDE_REGISTER_STRUCTURE"]
          : x \in move_to_next_register_for_init(w)}
    ELSE IF "PAIRING_FINISHED" \notin w.pairing.finished_cmd
    THEN {[w EXCEPT !.pairing.pairing_cmd = "PAIRING_FINISHED"]}
    ELSE {w}

(***************************************************************************)
(* Link: what a poll of the PJON driver (pjon.ThroughSerialAsync.loop) can *)
(* do.  It may call PjonClient.receive, which hands a valid frame to       *)
(* Receiver.on_message (the frame joins the receiver queue); it may raise  *)
(* a Link error; it returns the number of packets still to be sent.        *)
(***************************************************************************)
Msg(kind, sn, type, address) ==
    [kind |-> kind, sn |-> sn, type |-> type, address |-> address]

\* the frames the devices can have put on the bus
Deliverable(w) ==
    {Msg("SEARCH", sn, None, NoAddress)
       : sn \in (IF w.env.chatty THEN w.env.pairing_mode ELSE w.env.owed)}
    \cup
    (IF w.pairing.waiting_for_packet # None
        /\ w.pairing.pairing_device.serial_number \in w.env.pairing_mode
        /\ ~w.env.mute
     THEN {Msg(w.pairing.pairing_cmd, w.pairing.pairing_device.serial_number,
               w.pairing.processing_register_type,
               w.pairing.processing_register_address)}
     ELSE {})
    \cup (IF w.env.reports THEN {Msg("REPORT", "X1", "INPUT", 0)} ELSE {})

\* Receiver.on_message: the frame is queued for Receiver.loop()
on_message(w, m) == [w EXCEPT !.receiver_queue = Append(@, m)]

\* a device that has acknowledged PAIRING_FINISHED has left its pairing mode
Delivered(w, m) ==
    IF m.kind = "PAIRING_FINISHED"
    THEN [w EXCEPT !.env.pairing_mode = @ \ {m.sn}, !.env.owed = @ \ {m.sn}]
    ELSE IF m.kind = "SEARCH" THEN [w EXCEPT !.env.owed = @ \ {m.sn}]
    ELSE w

\* a device in pairing mode answers a SEARCH broadcast it hears once
Heard(w, frame) ==
    IF frame.cmd = "SEARCH" THEN [w EXCEPT !.env.owed = w.env.pairing_mode] ELSE w

\* the polls of one phase hand at most one frame to the Receiver
Receive(w) ==
    {w} \cup (IF Len(w.receiver_queue) < MaxQueue
              THEN {on_message(Delivered(w, m), m) : m \in Deliverable(w)} ELSE {})

Frame(cmd, client, address, sn, type, reg) ==
    [cmd |-> cmd, client |-> client, address |-> address, sn |-> sn,
     type |-> type, reg |-> reg, wait |-> 0]

\* self.send(address, bytes(payload)) (pjon.py:111)
Send(w, frame) ==
    [Heard(w, frame) EXCEPT
        !.obs.sent = Append(@, frame),
        !.frames_sent = IF is_enabled(w) /\ w.env.audit
                        THEN Min(@ + 1, FramesCap) ELSE @,
        !.session.asked = IF frame.cmd = "SEARCH" THEN @ ELSE @ \cup {frame.sn}]

\* the ack-wait of PjonClient.send_packet (pjon.py:158-168): polls for up to
\* waiting_time; a poll that raises is not caught here.  A frame received during
\* these polls is queued like one received by the poll that ends the tick, and
\* is accounted for there.
AckWait(w) ==
    UNION {{[w EXCEPT !.clock.age = Min(@ + e, MAX_PAIRING_DELAY)]}
           \cup (IF w.env.faulty
                 THEN {[w EXCEPT !.clock.age = Min(@ + e, MAX_PAIRING_DELAY),
                                 !.obs.escaped = TRUE]}
                 ELSE {})
           : e \in 0..BROADCAST_WAITING_DELAY}

\* PjonClient.send_packet with waiting_time > 0, called once per client
send_packet_waiting(w, frame) == AckWait(Send(w, frame))

\* the ack-wait loop of PjonClient.send_packet (pjon.py:158-170), elapsed
\* seconds after the send: a poll is made while elapsed <= waiting_time; True
\* is returned when a poll reports PJON_ACK, False when the time is over.
\* obs.target: the polls made, obs.result: the value returned
RECURSIVE Polls(_, _, _)
Polls(w, elapsed, waiting_time) ==
    IF elapsed > waiting_time THEN {[w EXCEPT !.obs.result = "False"]}
    ELSE {[w EXCEPT !.obs.target = Append(@, [at |-> elapsed, status |-> "ACK"]),
                    !.obs.result = "True"]}
         \cup (IF w.env.faulty THEN {[w EXCEPT !.obs.escaped = TRUE]} ELSE {})
         \cup Polls([w EXCEPT
                        !.obs.target = Append(@, [at |-> elapsed, status |-> "BUSY"]),
                        !.clock.age = IF elapsed < waiting_time
                                      THEN Min(@ + 1, MAX_PAIRING_DELAY) ELSE @],
                    elapsed + 1, waiting_time)

\* variant: True is returned whether a poll reported PJON_ACK or not
send_packet_always_true(w, frame, waiting_time) ==
    {[x EXCEPT !.obs.result = "True"]
     : x \in Polls(Send(w, [frame EXCEPT !.wait = waiting_time]), 0, waiting_time)}

\* PjonClient.send_packet (pjon.py:101-170)
send_packet(w, frame, waiting_time) ==
    IF waiting_time > 0
    THEN Polls(Send(w, [frame EXCEPT !.wait = waiting_time]), 0, waiting_time)
    ELSE {[Send(w, [frame EXCEPT !.wait = waiting_time]) EXCEPT !.obs.result = "True"]}

\* the calls a handler makes into the Client proxy: one per id of the list
\* given to enable(), or one without client id when none was given
Targets(w) ==
    IF w.pairing.client_id.is_list THEN w.pairing.client_id.ids ELSE <<None>>

RECURSIVE broadcast_packet(_, _, _)
broadcast_packet(w, ids, frame) ==
    IF ids = <<>> THEN {w}
    ELSE LET sent == send_packet_waiting(w, [frame EXCEPT
                                                !.client = Head(ids),
                                                !.wait = BROADCAST_WAITING_DELAY])
         IN  Escaped(sent)
             \cup UNION {broadcast_packet(x, Tail(ids), frame) : x \in Alive(sent)}

\* the request is marked as sent before it is handed to the clients
\* variant: total_attempts is not counted
MarkRequest_skips_total(w) ==
    [w EXCEPT !.pairing.waiting_for_packet = "DISCOVER",
              !.pairing.attempts = @ + 1,
              !.clock = [zero |-> FALSE, age |-> 0]]

MarkRequest(w) ==
    [w EXCEPT !.pairing.waiting_for_packet = "DISCOVER",
              !.pairing.attempts = @ + 1,
              !.pairing.total_attempts = @ + 1,
              !.clock = [zero |-> FALSE, age |-> 0]]

broadcast_search_devices_handler(w) ==
    UNION {broadcast_packet(
               MarkRequest([x EXCEPT
                   !.session.searches = Min(@ + 1, MAX_SEARCHING_ATTEMPTS + 1),
                   !.obs.gaps = IF x.clock.zero THEN @ ELSE Append(@, x.clock.age)]),
               Targets(x), Frame("SEARCH", None, 0, None, None, NoAddress))
           : x \in {w}}

broadcast_write_address_handler(w) ==
    UNION {broadcast_packet(
               MarkRequest([x EXCEPT !.session.written =
                               @ \cup {<<x.pairing.pairing_device.serial_number,
                                         x.pairing.pairing_device.address>>}]),
               Targets(x),
               Frame("WRITE_ADDRESS", None, 0, x.pairing.pairing_device.serial_number,
                     None, x.pairing.pairing_device.address))
           : x \in {w}}

RECURSIVE SendAll(_, _, _)
SendAll(w, ids, frame) ==
    IF ids = <<>> THEN w
    ELSE SendAll(Send(w, [frame EXCEPT !.client = Head(ids)]), Tail(ids), frame)

\* __send_data_to_device: the result of the last send_packet decides
send_data_to_device(w, frame) ==
    LET w1 == SendAll(MarkRequest(w), Targets(w), frame)
        failed == [w1 EXCEPT !.pairing.waiting_for_packet = None,
                             !.pairing.attempts = 0,
                             !.clock = [zero |-> FALSE, age |-> 0]]
    IN  IF Targets(w) = <<>> THEN {failed}
        ELSE {w1} \cup (IF w.env.refuses THEN {failed} ELSE {})

send_finalize_pairing_handler(w) ==
    send_data_to_device(w, Frame("PAIRING_FINISHED", None,
                                 w.pairing.pairing_device.address,
                                 w.pairing.pairing_device.serial_number, None, NoAddress))

send_provide_register_structure_handler(w) ==
    IF w.pairing.processing_register_address = NoAddress
       \/ w.pairing.processing_register_type = None
    THEN {[w EXCEPT !.pairing.waiting_for_packet = None, !.pairing.attempts = 0]}
    ELSE send_data_to_device(w, Frame("PROVIDE_REGISTER_STRUCTURE", None,
                                      w.pairing.pairing_device.address,
                                      w.pairing.pairing_device.serial_number,
                                      w.pairing.processing_register_type,
                                      w.pairing.processing_register_address))

\* variant: the handler of PAIRING_FINISHED runs after the handler of another
\* command
SendCommand_falls_through(w) ==
    IF w.pairing.pairing_cmd = "WRITE_ADDRESS"
    THEN UNION {send_finalize_pairing_handler(x)
                : x \in broadcast_write_address_handler(w)}
    ELSE IF w.pairing.pairing_cmd = "PROVIDE_REGISTER_STRUCTURE"
    THEN UNION {send_finalize_pairing_handler(x)
                : x \in send_provide_register_structure_handler(w)}
    ELSE send_finalize_pairing_handler(w)

\* the three tests of pairing_cmd at the end of loop() (apiv1.py:201-208)
SendCommand(w) ==
    IF w.pairing.pairing_cmd = "WRITE_ADDRESS" THEN broadcast_write_address_handler(w)
    ELSE IF w.pairing.pairing_cmd = "PROVIDE_REGISTER_STRUCTURE"
    THEN send_provide_register_structure_handler(w)
    ELSE send_finalize_pairing_handler(w)

\* ApiV1Pairing.loop
\* variant: loop() does not look at __pairing_enabled
pairing_loop_unguarded(w) ==
    LET w1 == IF w.pairing.total_attempts >= MAX_TOTAL_TRANSMIT_ATTEMPTS
              THEN disable([w EXCEPT !.obs.capped = TRUE]) ELSE w
    IN  IF ~w1.pairing.broadcasting_search_finished
        THEN IF w1.pairing.attempts < MAX_SEARCHING_ATTEMPTS
             THEN IF w1.pairing.waiting_for_packet = None
                     \/ w1.clock.zero
                     \/ (w1.pairing.waiting_for_packet # None
                         /\ w1.clock.age >= SEARCHING_DELAY)
                  THEN broadcast_search_devices_handler(w1)
                  ELSE {w1}
             ELSE discover_device(
                    [w1 EXCEPT !.pairing.broadcasting_search_finished = TRUE])
        ELSE IF w1.pairing.pairing_device # NoDevice
        THEN IF w1.pairing.attempts >= MAX_TRANSMIT_ATTEMPTS
                \/ w1.clock.age >= MAX_PAIRING_DELAY
             THEN UNION {discover_device(
                    [x EXCEPT !.obs.lost = Append(@,
                        [sn |-> x.pairing.pairing_device.serial_number,
                         attempts |-> x.pairing.attempts,
                         total_attempts |-> x.pairing.total_attempts,
                         waiting |-> x.pairing.waiting_for_packet # None,
                         others |-> x.pairing.found_devices # {}]),
                              !.session.lost =
                                  @ \cup {x.pairing.pairing_device.serial_number}])
                    : x \in {w1}}
             ELSE IF w1.pairing.waiting_for_packet # None THEN {w1}
             ELSE UNION {SendCommand(x) : x \in move_to_next_cmd(w1)}
        ELSE {w1}

pairing_loop(w) ==
    IF w.pairing.pairing_enabled = FALSE THEN {w}
    ELSE
    LET w1 == IF w.pairing.total_attempts >= MAX_TOTAL_TRANSMIT_ATTEMPTS
              THEN disable([w EXCEPT !.obs.capped = TRUE]) ELSE w
    IN  IF ~w1.pairing.broadcasting_search_finished
        THEN IF w1.pairing.attempts < MAX_SEARCHING_ATTEMPTS
             THEN IF w1.pairing.waiting_for_packet = None
                     \/ w1.clock.zero
                     \/ (w1.pairing.waiting_for_packet # None
                         /\ w1.clock.age >= SEARCHING_DELAY)
                  THEN broadcast_search_devices_handler(w1)
                  ELSE {w1}
             ELSE discover_device(
                    [w1 EXCEPT !.pairing.broadcasting_search_finished = TRUE])
        ELSE IF w1.pairing.pairing_device # NoDevice
        THEN IF w1.pairing.attempts >= MAX_TRANSMIT_ATTEMPTS
                \/ w1.clock.age >= MAX_PAIRING_DELAY
             THEN UNION {discover_device(
                    [x EXCEPT !.obs.lost = Append(@,
                        [sn |-> x.pairing.pairing_device.serial_number,
                         attempts |-> x.pairing.attempts,
                         total_attempts |-> x.pairing.total_attempts,
                         waiting |-> x.pairing.waiting_for_packet # None,
                         others |-> x.pairing.found_devices # {}]),
                              !.session.lost =
                                  @ \cup {x.pairing.pairing_device.serial_number}])
                    : x \in {w1}}
             ELSE IF w1.pairing.waiting_for_packet # None THEN {w1}
             ELSE UNION {SendCommand(x) : x \in move_to_next_cmd(w1)}
        ELSE {w1}

(***************************************************************************)
(* Frame codec of PjonClient (clients/pjon.py): __crc16, the frame built   *)
(* by send_packet and the validation of receive.  Bytes are integers of    *)
(* 0..255, a payload is a sequence of bytes (Python index i is i + 1       *)
(* here).                                                                  *)
(***************************************************************************)
\* PacketContent.TERMINATOR
TERMINATOR == 36

\* ProtocolVersion and Packet (types.py is not part of the sources: the values
\* of the specification, section 6)
ProtocolVersionValues == {1}
PacketValues == {1, 2, 3, 4, 33, 34, 49, 65}

\* a ^ b on non-negative integers
RECURSIVE Xor(_, _)
Xor(a, b) ==
    IF a = 0 THEN b
    ELSE IF b = 0 THEN a
    ELSE (((a % 2) + (b % 2)) % 2) + 2 * Xor(a \div 2, b \div 2)

\* the inner loop of __crc16 (pjon.py:278-285), n passes left
RECURSIVE CrcByte(_, _, _, _)
CrcByte(crc, cur_byte, poly, n) ==
    IF n = 0 THEN crc
    ELSE IF (crc % 2) # (cur_byte % 2)
    THEN CrcByte(Xor(crc \div 2, poly), cur_byte \div 2, poly, n - 1)
    ELSE CrcByte(crc \div 2, cur_byte \div 2, poly, n - 1)

\* the outer loop of __crc16 (pjon.py:275-285)
RECURSIVE CrcData(_, _, _)
CrcData(crc, data, poly) ==
    IF data = <<>> THEN crc
    ELSE CrcData(CrcByte(crc, Head(data) % 256, poly, 8), Tail(data), poly)

\* variant: the two bytes of the result are not swapped
crc16_unswapped(calculate_data) ==
    65535 - CrcData(65535, calculate_data, 33800)

\* PjonClient.__crc16 with poly = 0x8408: crc = ~crc & 0xFFFF, then
\* (crc << 8) | ((crc >> 8) & 0xFF), then & 0xFFFF
crc16(calculate_data) ==
    LET crc == 65535 - CrcData(65535, calculate_data, 33800)
    IN  ((crc * 256) + ((crc \div 256) % 256)) % 65536

\* variant: the low byte of the CRC is appended before the high byte
frame_low_byte_first(payload) ==
    payload \o <<crc16(payload) % 256, crc16(payload) \div 256, TERMINATOR>>

\* the bytes PjonClient.send_packet hands to self.send (pjon.py:103-111)
send_packet_bytes(payload) ==
    payload \o <<crc16(payload) \div 256, crc16(payload) % 256, TERMINATOR>>

\* what the list given as payload holds when send_packet returns: the two CRC
\* bytes and the terminator were appended to the list itself (pjon.py:105-109)
payload_after_send(payload) ==
    payload \o <<crc16(payload) \div 256, crc16(payload) % 256, TERMINATOR>>

\* Python's list[i]: a negative i counts from the end; IndexError outside
HasIndex(list, i) == (0 - Len(list)) <= i /\ i < Len(list)
At(list, i) == IF i < 0 THEN list[Len(list) + i + 1] ELSE list[i + 1]

\* Python's list[0:stop]
Slice(list, stop) ==
    LET end == IF stop < 0 THEN (IF Len(list) + stop < 0 THEN 0 ELSE Len(list) + stop)
               ELSE Min(stop, Len(list))
    IN  SubSeq(list, 1, end)

Dropped == [outcome |-> "dropped", payload |-> <<>>]
Raised == [outcome |-> "raised", payload |-> <<>>]
\* variant: the terminator is not looked at
receive_unterminated(received_payload, length) ==
    LET raw_payload == received_payload
        payload == Slice(raw_payload, length - 3)
    IN  IF ~HasIndex(raw_payload, 0) THEN Raised
        ELSE IF At(raw_payload, 0) \notin ProtocolVersionValues THEN Dropped
        ELSE IF ~HasIndex(raw_payload, 1) THEN Raised
        ELSE IF At(raw_payload, 1) \notin PacketValues THEN Dropped
        ELSE IF ~HasIndex(raw_payload, length - 3) \/ ~HasIndex(raw_payload, length - 2)
        THEN Raised
        ELSE IF crc16(Slice(raw_payload, length - 3))
                # (At(raw_payload, length - 3) * 256) + At(raw_payload, length - 2)
        THEN Dropped
        ELSE IF FALSE THEN Dropped
        ELSE IF ~HasIndex(payload, 1) THEN Raised
        ELSE [outcome |-> "delivered", payload |-> payload]

\* variant: the CRC is not compared
receive_unchecked(received_payload, length) ==
    LET raw_payload == received_payload
        payload == Slice(raw_payload, length - 3)
    IN  IF ~HasIndex(raw_payload, 0) THEN Raised
        ELSE IF At(raw_payload, 0) \notin ProtocolVersionValues THEN Dropped
        ELSE IF ~HasIndex(raw_payload, 1) THEN Raised
        ELSE IF At(raw_payload, 1) \notin PacketValues THEN Dropped
        ELSE IF ~HasIndex(raw_payload, length - 3) \/ ~HasIndex(raw_payload, length - 2)
        THEN Raised
        ELSE IF FALSE
        THEN Dropped
        ELSE IF At(raw_payload, 0 - 1) # TERMINATOR THEN Dropped
        ELSE IF ~HasIndex(payload, 1) THEN Raised
        ELSE [outcome |-> "delivered", payload |-> payload]

\* PjonClient.receive: what becomes of a received frame.  "delivered": the
\* payload was handed to Receiver.on_message; "dropped": a check failed, a
\* warning was logged; "raised": an IndexError left receive()
receive(received_payload, length) ==
    LET raw_payload == received_payload
        payload == Slice(raw_payload, length - 3)
    IN  IF ~HasIndex(raw_payload, 0) THEN Raised
        ELSE IF At(raw_payload, 0) \notin ProtocolVersionValues THEN Dropped
        ELSE IF ~HasIndex(raw_payload, 1) THEN Raised
        ELSE IF At(raw_payload, 1) \notin PacketValues THEN Dropped
        ELSE IF ~HasIndex(raw_payload, length - 3) \/ ~HasIndex(raw_payload, length - 2)
        THEN Raised
        ELSE IF crc16(Slice(raw_payload, length - 3))
                # (At(raw_payload, length - 3) * 256) + At(raw_payload, length - 2)
        THEN Dropped
        ELSE IF At(raw_payload, 0 - 1) # TERMINATOR THEN Dropped
        ELSE IF ~HasIndex(payload, 1) THEN Raised
        ELSE [outcome |-> "delivered", payload |-> payload]

\* codec.origin: where the frame on the wire comes from ("none": no frame yet;
\* "encoder": send_packet built it; "bus": another sender or noise);
\* codec.payload: the payload send_packet was given; codec.flips: the number
\* of bits changed in transit; codec.outcome, codec.delivered: what receive()
\* did with the frame, and the payload it handed to the Receiver; codec.list:
\* the caller's list after send_packet returned; codec.second: the frame built
\* when the caller passes its list to send_packet once more
NoFrame ==
    [origin |-> "none", payload |-> <<>>, wire |-> <<>>, flips |-> 0,
     outcome |-> None, delivered |-> <<>>, list |-> <<>>, second |-> <<>>]

(***************************************************************************)
(* Receiver, Consumer, Publisher and Client proxy (receivers/, consumers/, *)
(* publishers/ and clients/client.py are not part of the sources:          *)
(* modelled from the specification, sections 4.4 to 4.7)                   *)
(***************************************************************************)
\* a DISCOVER reply counts when it answers the command the pairing device awaits
Awaited(w, m) ==
    /\ is_enabled(w)
    /\ w.pairing.pairing_device # NoDevice
    /\ w.pairing.pairing_device.serial_number = m.sn
    /\ w.pairing.waiting_for_packet # None
    /\ w.pairing.pairing_cmd = m.kind

\* PAIRING_FINISHED acknowledged: the device and its registers are inserted
\* into, or updated in, the Registry, the device in state READY (enrollment
\* then moves on to the next found device, see handle_message)
create_or_update(w) ==
    LET dev == w.pairing.pairing_device
    IN  [w EXCEPT !.registry.devices[dev.serial_number] =
                       [address |-> dev.address, state |-> "READY"],
                  !.registry.registers =
                       {r \in @ : r.device # dev.serial_number}
                       \cup {[id |-> r.id, device |-> dev.serial_number,
                              type |-> r.type, address |-> r.address,
                              data_type |-> r.data_type, actual_value |-> None,
                              expected_value |-> None, expected_pending |-> FALSE]
                             : r \in w.pairing.pairing_device_registers}]

\* the structure of one register arrived
receive_register_structure(w, m) ==
    LET known == {r \in w.pairing.pairing_device_registers :
                     r.type = m.type /\ r.address = m.address}
        w1 == IF known = {} THEN w
              ELSE append_register(w, (CHOOSE r \in known : TRUE).id,
                                   m.type, m.address, "UCHAR")
    IN  IF has_registers_to_init(w1) THEN move_to_next_register_for_init(w1)
        ELSE {append_pairing_cmd(x, "PROVIDE_REGISTER_STRUCTURE")
              : x \in move_to_next_register_for_init(w1)}

handle_message(w, m) ==
    IF m.kind = "REPORT"
    THEN {[w EXCEPT !.consumer_queue = Min(@ + MaxItems, MaxQueue)]}
    ELSE IF m.kind = "SEARCH"
    THEN {IF is_enabled(w) THEN append_device(w, "c1", m.sn, ADDRESS_NOT_ASSIGNED)
          ELSE w}
    ELSE IF ~Awaited(w, m) THEN {w}
    ELSE IF m.kind = "WRITE_ADDRESS" THEN {append_pairing_cmd(w, "WRITE_ADDRESS")}
    ELSE IF m.kind = "PROVIDE_REGISTER_STRUCTURE" THEN receive_register_structure(w, m)
    ELSE discover_device(append_pairing_cmd(create_or_update(w), "PAIRING_FINISHED"))

\* Receiver.loop: one queued frame is handled
receiver_loop(w) ==
    IF w.receiver_queue = <<>> THEN {w}
    ELSE handle_message([w EXCEPT !.receiver_queue = Tail(@)], Head(w.receiver_queue))

\* Consumer.loop: one queued work item is consumed
consumer_loop(w) ==
    {IF w.consumer_queue = 0 THEN w ELSE [w EXCEPT !.consumer_queue = @ - 1]}

\* Publisher.loop: for the next device of the round robin whose state is READY
\* or INIT (any of them: the pointer of the round robin is not followed) a
\* WRITE request when one of its registers has an expected value pending, else
\* a READ request, or none when its sampling period has not elapsed
publisher_loop(w) ==
    LET eligible == {d \in DeviceIds : w.registry.devices[d].state \in {"READY", "INIT"}}
        pending(d) == \E r \in w.registry.registers : r.device = d /\ r.expected_pending
    IN  {w} \cup {[w EXCEPT !.obs.requests =
                       Append(@, [device |-> d,
                                  kind |-> IF pending(d) THEN "WRITE" ELSE "READ"])]
                  : d \in eligible}

\* Client.loop: every client's PjonClient.handle (pjon.py:174-190); a Link error
\* is caught there and counts as 0 packets
client_loop(w) ==
    UNION {{[x EXCEPT !.packets_to_be_sent = n]
            : n \in 0..(IF w.env.busy THEN MaxPending ELSE 0)}
           : x \in Receive(w)}
    \cup (IF w.env.faulty
          THEN {[w EXCEPT !.packets_to_be_sent = 0, !.obs.caught = TRUE]} ELSE {})

(***************************************************************************)
(* FbBusConnector                                                          *)
(***************************************************************************)
SetAllUnknown(w) ==
    [w EXCEPT !.registry.devices =
        [d \in DeviceIds |-> IF @[d] = NoRecord THEN NoRecord
                             ELSE [@[d] EXCEPT !.state = "UNKNOWN"]]]

start(w) == SetAllUnknown([w EXCEPT !.stopped = FALSE, !.obs = NewObs("start")])

\* variant: the connector is marked stopped, the device states are left alone
stop_keeps_states(w) == [w EXCEPT !.obs = NewObs("stop"), !.stopped = TRUE]

stop(w) == [SetAllUnknown([w EXCEPT !.obs = NewObs("stop")]) EXCEPT !.stopped = TRUE]

\* variant: only the Receiver is asked
has_unfinished_tasks_receiver(w) == w.receiver_queue # <<>>

has_unfinished_tasks(w) == w.receiver_queue # <<>> \/ w.consumer_queue # 0

\* DataTransformHelpers.transform_for_device: None when the value cannot be
\* transformed for the data type
transform_for_device(data_type, value) ==
    IF data_type # "UNKNOWN" /\ value \in ValidValues THEN value ELSE None

Writable(r) == r.type \in {"OUTPUT", "ATTRIBUTE", "SETTING"}

\* RegistersRegistry.set_expected_value: the expected value and the pending
\* flag are set; nothing when the register is not writable
set_expected_value(w, register, value) ==
    IF ~Writable(register) THEN w
    ELSE [w EXCEPT !.registry.registers =
              (@ \ {register}) \cup {[register EXCEPT !.expected_value = value,
                                                      !.expected_pending = TRUE]}]

\* variant: the expected value is cleared, the pending flag is left set
set_actual_value_keeps_pending(w, register, value) ==
    LET clears == register.expected_pending /\ register.expected_value = value
        updated == [register EXCEPT
                       !.actual_value = value,
                       !.expected_value = IF clears THEN None ELSE @]
    IN  [w EXCEPT !.registry.registers = (@ \ {register}) \cup {updated},
                  !.obs.events = IF register.actual_value # value THEN @ + 1 ELSE @,
                  !.obs.cleared = clears]

\* RegistersRegistry.set_actual_value: an ActualValueChanged event is emitted
\* if the value differs from the actual value; an expected value that is
\* pending and equals the new actual value is cleared together with the flag
set_actual_value(w, register, value) ==
    LET clears == register.expected_pending /\ register.expected_value = value
        updated == [register EXCEPT
                       !.actual_value = value,
                       !.expected_value = IF clears THEN None ELSE @,
                       !.expected_pending = IF clears THEN FALSE ELSE @]
    IN  [w EXCEPT !.registry.registers = (@ \ {register}) \cup {updated},
                  !.obs.events = IF register.actual_value # value THEN @ + 1 ELSE @,
                  !.obs.cleared = clears]

write_register_value(w, register_id, write_value) ==
    LET w0 == [w EXCEPT !.obs = [NewObs("write_register_value")
                                    EXCEPT !.target = register_id]]
        found == {r \in w.registry.registers : r.id = register_id}
        register == CHOOSE r \in found : TRUE
        expected_value == transform_for_device(register.data_type, write_value)
    IN  IF w0.stopped THEN [w0 EXCEPT !.obs.result = "False"]
        ELSE IF found # {} /\ expected_value # None
        THEN [set_expected_value(w0, register, expected_value)
                 EXCEPT !.obs.result = "True"]
        ELSE [w0 EXCEPT !.obs.result = "False"]

broadcast_value(w, broadcast_value_, broadcast_data_type) ==
    LET w0 == [w EXCEPT !.obs = NewObs("broadcast_value")]
    IN  IF transform_for_device(broadcast_data_type, broadcast_value_) # None
        THEN [Call(w0, "Publisher.broadcast_value") EXCEPT !.obs.result = "True"]
        ELSE [w0 EXCEPT !.obs.result = "False"]

\* variant: Publisher.loop() is called after Pairing.loop() as well
outbound_both(w) ==
    LET w1 == [w EXCEPT !.obs.enabled_seen = is_enabled(w),
                        !.obs.gate = w.packets_to_be_sent]
    IN  IF is_enabled(w1) = TRUE
        THEN LET paired == pairing_loop(Call(w1, "Pairing.loop"))
             IN  Escaped(paired)
                 \cup UNION {publisher_loop(Call(x, "Publisher.loop"))
                             : x \in Alive(paired)}
        ELSE IF w1.packets_to_be_sent = 0
        THEN publisher_loop(Call(w1, "Publisher.loop"))
        ELSE {w1}

\* variant: Publisher.loop() is called a second time in the same tick
outbound_publisher_twice(w) ==
    LET w1 == [w EXCEPT !.obs.enabled_seen = is_enabled(w),
                        !.obs.gate = w.packets_to_be_sent]
    IN  IF is_enabled(w1) = TRUE THEN pairing_loop(Call(w1, "Pairing.loop"))
        ELSE IF w1.packets_to_be_sent = 0
        THEN UNION {publisher_loop(Call(x, "Publisher.loop"))
                    : x \in publisher_loop(Call(w1, "Publisher.loop"))}
        ELSE {w1}

\* variant: Publisher.loop() is called whatever the number of packets waiting
outbound_ungated(w) ==
    LET w1 == [w EXCEPT !.obs.enabled_seen = is_enabled(w),
                        !.obs.gate = w.packets_to_be_sent]
    IN  IF is_enabled(w1) = TRUE THEN pairing_loop(Call(w1, "Pairing.loop"))
        ELSE publisher_loop(Call(w1, "Publisher.loop"))

\* lines 244-253: Pairing.loop() when pairing is enabled, else Publisher.loop()
\* when no packet is waiting to be sent
outbound(w) ==
    LET w1 == [w EXCEPT !.obs.enabled_seen = is_enabled(w),
                        !.obs.gate = w.packets_to_be_sent]
    IN  IF is_enabled(w1) = TRUE THEN pairing_loop(Call(w1, "Pairing.loop"))
        ELSE IF w1.packets_to_be_sent = 0
        THEN publisher_loop(Call(w1, "Publisher.loop"))
        ELSE {w1}

poll(w) == client_loop(Call(w, "Client.loop"))

after_inbound(w) ==
    IF w.stopped THEN {w}
    ELSE LET sent == outbound(w)
         IN  Escaped(sent) \cup UNION {poll(x) : x \in Alive(sent)}

run_consumer(w) == consumer_loop(Call(w, "Consumer.loop"))

\* variant: the outbound step runs before the inbound processing
loop_outbound_first(w) ==
    LET w0 == [w EXCEPT !.obs = [NewObs("loop") EXCEPT !.running = ~w.stopped]]
    IN  IF w0.stopped /\ ~has_unfinished_tasks(w0) THEN {w0}
        ELSE IF w0.stopped
        THEN UNION {run_consumer(x) : x \in receiver_loop(Call(w0, "Receiver.loop"))}
        ELSE LET sent == outbound(w0)
                 received == UNION {receiver_loop(Call(x, "Receiver.loop"))
                                    : x \in Alive(sent)}
                 consumed == UNION {run_consumer(x) : x \in received}
             IN  Escaped(sent) \cup UNION {poll(x) : x \in consumed}

\* FbBusConnector.loop
loop(w) ==
    LET w0 == [w EXCEPT !.obs = [NewObs("loop") EXCEPT !.running = ~w.stopped]]
    IN  IF w0.stopped /\ ~has_unfinished_tasks(w0) THEN {w0}
        ELSE LET received == receiver_loop(Call(w0, "Receiver.loop"))
                 consumed == UNION {run_consumer(x) : x \in received}
             IN  UNION {after_inbound(x) : x \in consumed}

(***************************************************************************)
(* The state machine                                                       *)
(***************************************************************************)
RegistryRegisters ==
    {[id |-> <<"reg", d, t, a>>, device |-> d, type |-> t, address |-> a,
      data_type |-> "UCHAR", actual_value |-> None, expected_value |-> None,
      expected_pending |-> FALSE]
     : <<d, t, a>> \in {<<"X1", "INPUT", 0>>, <<"X1", "OUTPUT", 0>>}}

\* the state after construction, the Registry holding X1 at address 1, X2 at
\* the given address and other devices at the given addresses
ConstructedHolding(x2_address, others, bbb, registers) ==
    /\ pairing = [found_devices |-> {}, pairing_device |-> NoDevice,
                  pairing_device_registers |-> {}, waiting_for_packet |-> None,
                  attempts |-> 0, total_attempts |-> 0, pairing_enabled |-> FALSE,
                  pairing_cmd |-> "WRITE_ADDRESS",
                  processing_register_address |-> NoAddress,
                  processing_register_type |-> None,
                  broadcasting_search_finished |-> FALSE, finished_cmd |-> {},
                  client_id |-> NoClientId]
    /\ clock = [zero |-> TRUE, age |-> MAX_PAIRING_DELAY]
    /\ registry = [devices |-> [d \in DeviceIds |->
                                  IF d = "X1" THEN [address |-> 1, state |-> "READY"]
                                  ELSE IF d = "X2"
                                  THEN [address |-> x2_address, state |-> "READY"]
                                  ELSE IF d = "BBB" THEN bbb
                                  ELSE NoRecord],
                   registers |-> registers, others |-> others]
    /\ stopped = FALSE
    /\ packets_to_be_sent = 0
    /\ receiver_queue = <<>>
    /\ consumer_queue = 0
    /\ frames_sent = 0
    /\ session = NewSession
    /\ codec = NoFrame
    /\ obs = NewObs("init")

ConstructedWith(x2_address, others, bbb) ==
    ConstructedHolding(x2_address, others, bbb, RegistryRegisters)

\* the state after construction (scenario S3: addresses 1 and 2 are held)
Constructed == ConstructedWith(2, {}, NoRecord)

\* pairing_mode: the devices that answer DISCOVER frames; owed: the devices
\* whose answer to a SEARCH broadcast is still to come; chatty: a device in
\* pairing mode repeats its answer to SEARCH unasked; reports:
\* registered devices send unsolicited reports; busy: the Link can report
\* packets still to be sent; refuses: Client.send_packet can return False;
\* faulty: a poll of the Link can raise a Link error; audit: the frames handed
\* to the Link are counted in frames_sent; mute: the answers of the devices to
\* the enrollment commands are lost
Environments ==
    [pairing_mode : SUBSET Serials, owed : {{}}, chatty : BOOLEAN, reports : BOOLEAN,
     busy : BOOLEAN, refuses : BOOLEAN, faulty : BOOLEAN, audit : BOOLEAN,
     mute : {FALSE}]

\* the bus of the connector scenarios: no device in pairing mode, registered
\* devices that report, a Link that can be busy and can raise
ConnectorEnvironments ==
    {e \in Environments : e.pairing_mode = {} /\ e.reports /\ e.busy /\ e.faulty
                          /\ ~e.chatty /\ ~e.refuses /\ ~e.audit}

Init == Constructed /\ env \in ConnectorEnvironments

Start == Install(start(World))

Stop == Install(stop(World))

Enable == \E c \in ClientIdChoices :
    Install(enable([World EXCEPT !.obs = NewObs("enable")], c))

Loop == \E w \in loop(World) : Install(w)

WriteRegisterValue == \E id \in RegisterIds, v \in Values :
    Install(write_register_value(World, id, v))

BroadcastValue == \E v \in Values :
    Install(broadcast_value(World, v, "UCHAR"))

\* one second passes
Tick ==
    /\ clock' = [clock EXCEPT !.age = Min(@ + 1, MAX_PAIRING_DELAY)]
    /\ obs' = NewObs("tick")
    /\ UNCHANGED <<pairing, registry, stopped, packets_to_be_sent, receiver_queue,
                   consumer_queue, env, frames_sent, session, codec>>

Next == Start \/ Stop \/ Enable \/ Loop \/ WriteRegisterValue \/ BroadcastValue \/ Tick

Spec == Init /\ [][Next]_vars

(***************************************************************************)
(* Pairing scenarios: the host enables pairing and calls loop(); devices    *)
(* in pairing mode answer, late or not at all                              *)
(***************************************************************************)
\* the host calls loop() at least once a second
PromptTick == obs.op # "tick" /\ Tick

PairingNext == Enable \/ Loop \/ PromptTick

PairingInit ==
    Constructed /\ env \in {e \in Environments :
                               ~e.chatty /\ ~e.reports /\ ~e.busy /\ ~e.refuses
                               /\ ~e.faulty /\ ~e.audit}

PairingSpec == PairingInit /\ [][PairingNext]_vars

\* the frames of a session are counted; the device repeats its answer to
\* SEARCH
CapInit ==
    Constructed /\ env \in {e \in Environments :
                               e.pairing_mode = {"BBB"} /\ e.chatty /\ e.audit
                               /\ ~e.reports /\ ~e.busy /\ ~e.refuses /\ ~e.faulty}

\* enable() called without client id
EnableDefault == Install(enable([World EXCEPT !.obs = NewObs("enable")], NoClientId))

CapNext == EnableDefault \/ Loop \/ PromptTick

CapSpec == CapInit /\ [][CapNext]_vars

\* the Link can refuse a frame sent to one device: Client.send_packet returns
\* False, nothing is awaited and the command is sent again on the next tick
RefusedInit ==
    Constructed /\ env \in {e \in Environments :
                               e.pairing_mode = {"BBB"} /\ e.refuses
                               /\ ~e.chatty /\ ~e.audit /\ ~e.reports /\ ~e.busy
                               /\ ~e.faulty}

RefusedSpec == RefusedInit /\ [][CapNext]_vars

\* the host enables pairing when it is disabled, keeps calling loop(), and the
\* clock advances
EnableWhenDisabled == ~is_enabled(World) /\ Enable

LiveNext == EnableWhenDisabled \/ Loop \/ Tick

\* at most one device in pairing mode; it answers each SEARCH broadcast at
\* most once
LiveInit ==
    Constructed /\ env \in {e \in Environments :
                               e.pairing_mode \subseteq {"BBB"}
                               /\ ~e.chatty /\ ~e.reports /\ ~e.busy /\ ~e.refuses
                               /\ ~e.faulty /\ ~e.audit}

LiveSpec == LiveInit /\ [][LiveNext]_vars /\ WF_vars(Loop) /\ WF_vars(Tick)

\* two devices in pairing mode that repeat their answer to SEARCH; their
\* answers to the enrollment commands are lost
RepeatedInit ==
    Constructed /\ env \in {[e EXCEPT !.mute = TRUE] : e \in {x \in Environments :
                               x.pairing_mode = Serials /\ x.chatty
                               /\ ~x.audit /\ ~x.reports /\ ~x.busy /\ ~x.refuses
                               /\ ~x.faulty}}

RepeatedSpec == RepeatedInit /\ [][CapNext]_vars

\* Pairing.loop() called by itself, whether pairing is enabled or not
PairingLoop ==
    \E w \in pairing_loop([World EXCEPT
                              !.obs = [NewObs("Pairing.loop") EXCEPT
                                          !.enabled_seen = is_enabled(World)]]) :
        Install(w)

HandlerNext == Enable \/ Loop \/ PairingLoop \/ PromptTick

HandlerSpec == LiveInit /\ [][HandlerNext]_vars

\* append_pairing_cmd() called by itself between two calls of loop(), for the
\* command whose reply is awaited from the device being enrolled; the reply to
\* PAIRING_FINISHED is recorded in loop(), where the Receiver goes on to
\* discover_device()
AppendPairingCmd ==
    \E command \in {"WRITE_ADDRESS", "PROVIDE_REGISTER_STRUCTURE"} :
        /\ is_enabled(World)
        /\ pairing.pairing_device # NoDevice
        /\ pairing.waiting_for_packet # None
        /\ pairing.pairing_cmd = command
        /\ Install(append_pairing_cmd(
                       [World EXCEPT !.obs = NewObs("append_pairing_cmd")], command))

ReplyNext == Enable \/ Loop \/ AppendPairingCmd \/ PromptTick

ReplySpec == LiveInit /\ [][ReplyNext]_vars

\* append_device() called by itself while pairing is enabled: discovery
\* replies of device BBB, which reports no address or the address it holds,
\* heard through either client
ReportedAddresses == {ADDRESS_NOT_ASSIGNED, 7}

AppendDevice ==
    \E client_id \in Clients, device_address \in ReportedAddresses :
        /\ is_enabled(World)
        /\ Install(append_device(
                       [World EXCEPT !.obs = [NewObs("append_device") EXCEPT
                                                 !.target = <<client_id, "BBB",
                                                              device_address>>]],
                       client_id, "BBB", device_address))

FoundNext == Enable \/ Loop \/ AppendDevice \/ PromptTick

FoundInit ==
    Constructed /\ env \in {e \in Environments :
                               e.pairing_mode = {}
                               /\ ~e.chatty /\ ~e.reports /\ ~e.busy /\ ~e.refuses
                               /\ ~e.faulty /\ ~e.audit}

FoundSpec == FoundInit /\ [][FoundNext]_vars

\* the Registry knows device BBB at address 7 and its input register 0, not
\* its setting 0
KnownRegisters ==
    RegistryRegisters
    \cup {[id |-> <<"reg", "BBB", "INPUT", 0>>, device |-> "BBB", type |-> "INPUT",
           address |-> 0, data_type |-> "UCHAR", actual_value |-> None,
           expected_value |-> None, expected_pending |-> FALSE]}

RebuiltInit ==
    /\ ConstructedHolding(2, {}, [address |-> 7, state |-> "UNKNOWN"], KnownRegisters)
    /\ env \in {e \in Environments :
                   "BBB" \in e.pairing_mode
                   /\ ~e.chatty /\ ~e.reports /\ ~e.busy /\ ~e.refuses
                   /\ ~e.faulty /\ ~e.audit}

RebuiltSpec == RebuiltInit /\ [][CapNext]_vars

\* PjonClient.broadcast_packet() called by itself with a SEARCH frame while
\* pairing is disabled, with and without waiting time
WaitingTimes == {0, BROADCAST_WAITING_DELAY}

BroadcastPacket ==
    \E waiting_time \in WaitingTimes :
        /\ ~is_enabled(World)
        /\ \E w \in send_packet([World EXCEPT !.obs = NewObs("send_packet")],
                                 Frame("SEARCH", None, 0, None, None, NoAddress),
                                 waiting_time) :
               Install(w)

AckNext == Enable \/ Loop \/ BroadcastPacket \/ PromptTick

AckSpec == LiveInit /\ [][AckNext]_vars

(***************************************************************************)
(* Address scenarios: pairing sessions with a Registry in which addresses  *)
(* 1 and 2 are held, or 1 and 3 (address 2 is free below a held one), or   *)
(* all but the last address 253, or all 253                                *)
(***************************************************************************)
Registries == {<<2, {}>>, <<3, {}>>, <<2, 3..252>>, <<2, 3..253>>}

AddressInit ==
    /\ \E r \in Registries : ConstructedWith(r[1], r[2], NoRecord)
    /\ env \in {e \in Environments :
                   ~e.chatty /\ ~e.reports /\ ~e.busy /\ ~e.refuses
                   /\ ~e.faulty /\ ~e.audit}

AddressSpec == AddressInit /\ [][PairingNext]_vars

\* Registries that know the device BBB: with no address assigned, with address
\* 7, and with address 7 while every other address is held
KnownRegistries ==
    {<<{}, [address |-> ADDRESS_NOT_ASSIGNED, state |-> "UNKNOWN"]>>,
     <<{}, [address |-> 7, state |-> "UNKNOWN"]>>,
     <<(3..253) \ {7}, [address |-> 7, state |-> "UNKNOWN"]>>}

KnownInit ==
    /\ \E r \in KnownRegistries : ConstructedWith(2, r[1], r[2])
    /\ env \in {e \in Environments :
                   "BBB" \in e.pairing_mode
                   /\ ~e.chatty /\ ~e.reports /\ ~e.busy /\ ~e.refuses
                   /\ ~e.faulty /\ ~e.audit}

KnownSpec == KnownInit /\ [][CapNext]_vars

(***************************************************************************)
(* Register scenarios: the host writes expected values, the devices report *)
(* actual values                                                           *)
(***************************************************************************)
\* the values a device reports for a register
ReportedValues == {"v1", "v2"}

\* the Receiver has decoded the value of a register from a reply or a report
\* and calls set_actual_value
SetActualValue == \E register \in registry.registers, value \in ReportedValues :
    Install(set_actual_value(
        [World EXCEPT !.obs = [NewObs("set_actual_value") EXCEPT
                                  !.target = register.id, !.result = value]],
        register, value))

RegisterNext == Start \/ Stop \/ WriteRegisterValue \/ SetActualValue

RegisterSpec == Init /\ [][RegisterNext]_vars

(***************************************************************************)
(* Frame codec scenarios: send_packet builds a frame, the bus may change   *)
(* one bit of it or carry a short frame of another sender, receive() is    *)
(* given what arrives together with its length.  One frame is followed     *)
(* from the sender to the Receiver.                                        *)
(***************************************************************************)
\* longest payload and the bytes payloads are made of: the version V1, the
\* packet kind DISCOVER, the terminator, a byte that is neither, 0xFF
MaxPayload == 3
PayloadBytes == {0, 1, 4, 36, 255}
Payloads == UNION {[1..n -> PayloadBytes] : n \in 0..MaxPayload}

\* longest frame of another sender and the bytes it is made of
MaxShort == 3
ShortFrames == UNION {[1..n -> {1, 4, 36}] : n \in 0..MaxShort}

RECURSIVE Power2(_)
Power2(n) == IF n = 0 THEN 1 ELSE 2 * Power2(n - 1)

\* byte with bit b changed
FlipBit(byte, b) ==
    IF (byte \div Power2(b)) % 2 = 1 THEN byte - Power2(b) ELSE byte + Power2(b)

OtherVars == <<pairing, clock, registry, stopped, packets_to_be_sent, receiver_queue,
               consumer_queue, env, frames_sent, session, obs>>

\* send_packet is given a payload; the frame it builds is on the wire
SendPacket == \E payload \in Payloads :
    /\ codec.origin = "none"
    /\ codec' = [NoFrame EXCEPT !.origin = "encoder", !.payload = payload,
                                !.wire = send_packet_bytes(payload),
                                !.list = payload_after_send(payload)]
    /\ UNCHANGED OtherVars

\* one bit of the frame built by send_packet changes in transit
Corrupt == \E i \in 1..Len(codec.wire), b \in 0..7 :
    /\ codec.origin = "encoder" /\ codec.flips = 0 /\ codec.outcome = None
    /\ codec' = [codec EXCEPT !.wire[i] = FlipBit(@, b), !.flips = 1]
    /\ UNCHANGED OtherVars

\* a short frame of another sender is on the wire
ShortFrame == \E f \in ShortFrames :
    /\ codec.origin = "none"
    /\ codec' = [NoFrame EXCEPT !.origin = "bus", !.wire = f]
    /\ UNCHANGED OtherVars

\* the Link calls receive() with the frame and its length
ReceiveFrame ==
    /\ codec.origin # "none" /\ codec.outcome = None
    /\ LET r == receive(codec.wire, Len(codec.wire))
       IN  codec' = [codec EXCEPT !.outcome = r.outcome, !.delivered = r.payload]
    /\ UNCHANGED OtherVars

\* the caller passes the same list to send_packet again, as the pairing
\* handlers do for the second client id (apiv1.py:725-732, 752-758)
SendAgain ==
    /\ codec.origin = "encoder" /\ codec.second = <<>>
    /\ codec.flips = 0 /\ codec.outcome = None
    /\ codec' = [codec EXCEPT !.second = send_packet_bytes(codec.list),
                              !.list = payload_after_send(codec.list)]
    /\ UNCHANGED OtherVars

ResendNext == SendPacket \/ SendAgain

CodecNext == SendPacket \/ Corrupt \/ ShortFrame \/ ReceiveFrame

CodecInit == Constructed /\ env \in ConnectorEnvironments

CodecSpec == CodecInit /\ [][CodecNext]_vars

ResendSpec == CodecInit /\ [][ResendNext]_vars

(***************************************************************************)
(* Claims                                                                  *)
(***************************************************************************)
Range(f) == {f[i] : i \in DOMAIN f}

\* the last operation was a loop() call of a connector that was not stopped
RunningTick == obs.op = "loop" /\ obs.running

\* C1: counting from enable() until pairing is next disabled, Pairing.loop()
\* hands at most MAX_TOTAL_TRANSMIT_ATTEMPTS frames to the Link, SEARCH
\* broadcasts and enrollment commands together
C1_FramesWithinCap == frames_sent <= MAX_TOTAL_TRANSMIT_ATTEMPTS

\* C2: a device that answered SEARCH and answers every command it is sent is
\* enrolled.  Finite form: when Pairing.loop() has ended a session, every
\* device found in it to which no command was ever sent (so that it left no
\* command unanswered) is READY in the Registry
C2_FoundDeviceEnrolled ==
    (obs.op = "loop" /\ ~is_enabled(World))
        => \A sn \in session.found \ session.asked :
               registry.devices[sn].state = "READY"

\* the state a finished session is in
SessionOver ==
    /\ ~is_enabled(World)
    /\ pairing.found_devices = {}
    /\ pairing.pairing_device = NoDevice

\* C3: once enabled, pairing eventually disables itself, with found_devices
\* drained and no device being enrolled
C3_EventuallyDisabled == is_enabled(World) ~> SessionOver

\* a session in which a device was found has ended
C3_Witness == obs.op = "loop" /\ SessionOver /\ session.found # {}

\* C4: between stop() and the next start() no operation starts outbound work:
\* loop() calls neither Pairing.loop() nor Publisher.loop() nor the Link poll,
\* write_register_value() changes no register, broadcast_value() hands
\* nothing to the Publisher
C4_NoOutboundWhileStopped ==
    [][(stopped /\ stopped') =>
          /\ Range(obs'.calls) \cap {"Pairing.loop", "Publisher.loop", "Client.loop",
                                     "Publisher.broadcast_value"} = {}
          /\ registry'.registers = registry.registers]_vars

\* C5: a loop() call of a stopped connector runs Receiver.loop() and
\* Consumer.loop(), and nothing else, while the receiver queue or the consumer
\* queue is non-empty; once both are empty they stay empty until start(), and
\* a loop() call invokes nothing and changes nothing
C5_DrainThenIdle ==
    [][/\ (stopped /\ obs'.op = "loop") =>
            IF receiver_queue # <<>> \/ consumer_queue # 0
            THEN obs'.calls = <<"Receiver.loop", "Consumer.loop">>
            ELSE /\ obs'.calls = <<>>
                 /\ UNCHANGED <<pairing, clock, registry, stopped, packets_to_be_sent,
                                receiver_queue, consumer_queue, env, frames_sent,
                                session>>
       /\ (stopped /\ stopped' /\ receiver_queue = <<>> /\ consumer_queue = 0)
            => (receiver_queue' = <<>> /\ consumer_queue' = 0)]_vars

\* a stopped connector has just drained the last of its inbound work
C5_Witness ==
    /\ stopped /\ obs.op = "loop"
    /\ obs.calls = <<"Receiver.loop", "Consumer.loop">>
    /\ receiver_queue = <<>> /\ consumer_queue = 0

\* C6 as stated: every tick of a running connector (that no Link error ends)
\* calls Receiver.loop(), Consumer.loop(), then Pairing.loop() or
\* Publisher.loop(), then the Link poll
C6_FourCallsInOrder ==
    (RunningTick /\ ~obs.escaped) =>
        obs.calls \in
            {<<"Receiver.loop", "Consumer.loop", "Pairing.loop", "Client.loop">>,
             <<"Receiver.loop", "Consumer.loop", "Publisher.loop", "Client.loop">>}

\* C6 amended: in a tick of a running connector Receiver.loop() is called
\* first and Consumer.loop() second; then comes Pairing.loop(), or
\* Publisher.loop(), or neither of them; the Link poll is the last call, and is
\* missing only from a tick that a Link error escaping Pairing.loop() has
\* ended; frames are sent by the third call only, after the inbound processing
C6_InboundBeforeOutbound ==
    RunningTick =>
        /\ obs.calls \in
              {<<"Receiver.loop", "Consumer.loop", "Pairing.loop", "Client.loop">>,
               <<"Receiver.loop", "Consumer.loop", "Publisher.loop", "Client.loop">>,
               <<"Receiver.loop", "Consumer.loop", "Client.loop">>}
              \cup (IF obs.escaped
                    THEN {<<"Receiver.loop", "Consumer.loop", "Pairing.loop">>}
                    ELSE {})
        /\ obs.sent # <<>> => obs.calls[3] = "Pairing.loop"

\* a tick that sent a frame and polled the Link
C6_Witness ==
    /\ RunningTick /\ obs.sent # <<>>
    /\ obs.calls = <<"Receiver.loop", "Consumer.loop", "Pairing.loop", "Client.loop">>

\* C7: in a tick of a running connector Pairing.loop() is invoked if and only
\* if pairing is enabled when the tick reaches that point, and Publisher.loop()
\* is not invoked in such a tick: never both
C7_PairingXorPublisher ==
    RunningTick =>
        /\ ("Pairing.loop" \in Range(obs.calls)) <=> obs.enabled_seen
        /\ obs.enabled_seen => "Publisher.loop" \notin Range(obs.calls)
        /\ ~({"Pairing.loop", "Publisher.loop"} \subseteq Range(obs.calls))

\* a tick in which pairing was enabled and Pairing.loop() sent a frame
C7_Witness == RunningTick /\ obs.enabled_seen /\ obs.sent # <<>>

\* C8 as stated: a non-zero pending-send count keeps the tick from starting an
\* outbound request, from Publisher.loop() and from Pairing.loop(); with a zero
\* count and pairing disabled Publisher.loop() is invoked
C8_PendingGatesAllSends ==
    RunningTick =>
        /\ obs.gate # 0 =>
              /\ Range(obs.calls) \cap {"Pairing.loop", "Publisher.loop"} = {}
              /\ obs.sent = <<>>
        /\ (obs.gate = 0 /\ ~obs.enabled_seen) => "Publisher.loop" \in Range(obs.calls)

\* C8 amended: the pending-send count gates Publisher.loop() only.  With
\* pairing disabled Publisher.loop() is invoked exactly when the count is zero
\* and the tick sends no pairing frame; with pairing enabled Pairing.loop() is
\* invoked whatever the count is
C8_PendingGatesPublisher ==
    RunningTick =>
        /\ ~obs.enabled_seen =>
              /\ ("Publisher.loop" \in Range(obs.calls)) <=> (obs.gate = 0)
              /\ "Pairing.loop" \notin Range(obs.calls)
              /\ obs.sent = <<>>
        /\ obs.enabled_seen => "Pairing.loop" \in Range(obs.calls)

\* a tick that found packets pending and pairing disabled
C8_Witness ==
    /\ RunningTick /\ obs.gate # 0 /\ ~obs.enabled_seen
    /\ obs.calls = <<"Receiver.loop", "Consumer.loop", "Client.loop">>

\* C9: write_register_value returns true only for a register that exists and
\* is writable
C9_TrueOnlyIfWritable ==
    (obs.op = "write_register_value" /\ obs.result = "True")
        => \E r \in registry.registers :
               r.id = obs.target /\ r.type \in {"OUTPUT", "ATTRIBUTE", "SETTING"}

\* C10: no exception escapes Connector.loop()
C10_NothingEscapesLoop == obs.op = "loop" => ~obs.escaped

\* a frame has been given to receive()
Received == codec.origin # "none" /\ codec.outcome # None

\* the frame send_packet built has arrived unchanged
ArrivedIntact == codec.origin = "encoder" /\ codec.flips = 0 /\ codec.outcome # None

\* C11: receive() never raises to its caller; whatever the frame and its
\* length, empty and shorter than 3 bytes included, the frame is delivered or
\* logged and dropped
C11_ReceiveNeverRaises == codec.outcome # "raised"

\* C12: Receiver.on_message is invoked for a frame of length L only if byte 0
\* is a recognised protocol version, byte 1 a recognised packet kind, the CRC
\* of the first L-3 bytes equals (byte[L-3] << 8) | byte[L-2] and byte[L-1] is
\* the terminator; it is given exactly the first L-3 bytes
C12_DeliveredOnlyIfValid ==
    codec.outcome = "delivered" =>
        LET L == Len(codec.wire)
        IN  /\ L >= 3
            /\ codec.wire[1] \in ProtocolVersionValues
            /\ codec.wire[2] \in PacketValues
            /\ crc16(SubSeq(codec.wire, 1, L - 3))
                  = (codec.wire[L - 2] * 256) + codec.wire[L - 1]
            /\ codec.wire[L] = TERMINATOR
            /\ codec.delivered = SubSeq(codec.wire, 1, L - 3)

\* a frame passed the four checks and reached the Receiver
C12_Witness == Received /\ codec.outcome = "delivered" /\ Len(codec.delivered) = 3

\* C13 as stated: for any byte sequence B, the frame send_packet builds from B
\* passes the validation of receive(), which delivers exactly B
C13_RoundTripAnyBytes ==
    ArrivedIntact => (codec.outcome = "delivered" /\ codec.delivered = codec.payload)

\* C13 amended: the frame built from B is delivered, as exactly B, when B has
\* at least two bytes, the first a recognised protocol version and the second
\* a recognised packet kind; the frame built from any other B is not delivered
C13_RoundTripWellFormed ==
    ArrivedIntact =>
        IF /\ Len(codec.payload) >= 2
           /\ codec.payload[1] \in ProtocolVersionValues
           /\ codec.payload[2] \in PacketValues
        THEN codec.outcome = "delivered" /\ codec.delivered = codec.payload
        ELSE codec.outcome # "delivered"

\* the frame built from a three-byte payload came back as that payload
C13_Witness ==
    /\ ArrivedIntact /\ codec.outcome = "delivered"
    /\ Len(codec.payload) = 3 /\ codec.delivered = codec.payload

\* C14: a frame built by send_packet in which one bit was flipped (in the
\* payload, in a CRC byte or in the terminator) is rejected by receive()
C14_SingleBitFlipRejected ==
    (codec.origin = "encoder" /\ codec.flips = 1 /\ codec.outcome # None)
        => codec.outcome = "dropped"

\* a frame of a well-formed payload whose version and kind bytes arrived
\* intact, one bit of the rest flipped, was rejected
C14_Witness ==
    /\ codec.origin = "encoder" /\ codec.flips = 1 /\ codec.outcome = "dropped"
    /\ Len(codec.payload) = 3
    /\ codec.payload[1] \in ProtocolVersionValues /\ codec.payload[2] \in PacketValues
    /\ codec.wire[1] = codec.payload[1] /\ codec.wire[2] = codec.payload[2]

\* The reflected CRC on a register of 16 bits (bit 0 the lowest): for each
\* data bit, lowest bit of each byte first, the register is shifted right by
\* one and, when the bit shifted out differs from the data bit, the
\* polynomial 0x8408 (bits 15, 10 and 3) is added
PolynomialBits == {15, 10, 3}

ShiftRight(reg) == [i \in 0..15 |-> IF i = 15 THEN FALSE ELSE reg[i + 1]]

AddPolynomial(reg) == [i \in 0..15 |-> IF i \in PolynomialBits THEN ~reg[i] ELSE reg[i]]

DataBits(data) ==
    [k \in 1..(8 * Len(data)) |->
        (data[((k - 1) \div 8) + 1] \div Power2((k - 1) % 8)) % 2 = 1]

RECURSIVE ReflectedCrc(_, _)
ReflectedCrc(reg, bits) ==
    IF bits = <<>> THEN reg
    ELSE IF reg[0] # Head(bits)
    THEN ReflectedCrc(AddPolynomial(ShiftRight(reg)), Tail(bits))
    ELSE ReflectedCrc(ShiftRight(reg), Tail(bits))

RECURSIVE ValueOf(_, _)
ValueOf(reg, i) ==
    IF i > 15 THEN 0 ELSE (IF reg[i] THEN Power2(i) ELSE 0) + ValueOf(reg, i + 1)

\* seed 0xFFFF, the result complemented, its two bytes swapped
ReferenceCrc(data) ==
    LET reg == ReflectedCrc([i \in 0..15 |-> TRUE], DataBits(data))
    IN  ValueOf([i \in 0..15 |-> ~reg[(i + 8) % 16]], 0)

\* C15: the CRC of a payload is the reflected CRC with polynomial 0x8408 and
\* seed 0xFFFF over the whole payload, complemented, its two bytes swapped
\* (for the bytes of "123456789": 0x906E swapped, 0x6E90); the frame handed
\* to the Link is payload || (crc >> 8) || (crc & 0xFF) || 0x24
C15_CrcAndFrameLayout ==
    (codec.origin = "encoder" /\ codec.flips = 0) =>
        /\ crc16(codec.payload) = ReferenceCrc(codec.payload)
        /\ crc16(<<49, 50, 51, 52, 53, 54, 55, 56, 57>>) = 28304
        /\ codec.wire = codec.payload \o <<ReferenceCrc(codec.payload) \div 256,
                                           ReferenceCrc(codec.payload) % 256, 36>>

\* send_packet built the frame of the payload [0x01, 0x04, 0x01]
C15_Witness ==
    /\ codec.origin = "encoder" /\ codec.flips = 0
    /\ codec.payload = <<1, 4, 1>> /\ codec.wire = <<1, 4, 1, 249, 234, 36>>

\* every device of the Registry is in state UNKNOWN, at the address it had
AllUnknown(before, after) ==
    \A d \in DeviceIds :
        IF before[d] = NoRecord THEN after[d] = NoRecord
        ELSE after[d] = [before[d] EXCEPT !.state = "UNKNOWN"]

\* C16: start() sets every device of the Registry to UNKNOWN and marks the
\* connector not stopped, stop() sets every device to UNKNOWN and marks it
\* stopped; neither changes the pairing state, the pending-send count, the
\* registers or the queued inbound work
C16_StartStopFrame ==
    [][(obs'.op \in {"start", "stop"}) =>
          /\ stopped' = (obs'.op = "stop")
          /\ AllUnknown(registry.devices, registry'.devices)
          /\ registry'.registers = registry.registers
          /\ UNCHANGED <<pairing, clock, packets_to_be_sent, receiver_queue,
                         consumer_queue, env, frames_sent, session, codec>>]_vars

\* stop() was called with pairing enabled, packets pending and inbound work
\* queued
C16_Witness ==
    /\ obs.op = "stop" /\ stopped /\ is_enabled(World)
    /\ packets_to_be_sent # 0 /\ receiver_queue # <<>> /\ consumer_queue # 0
    /\ \A d \in KnownDevices : registry.devices[d].state = "UNKNOWN"

\* the addresses held by the devices of the Registry
Held ==
    {registry.devices[d].address : d \in {x \in DeviceIds : registry.devices[x] # NoRecord}}
    \cup registry.others

PendingIffExpected ==
    \A r \in registry.registers : r.expected_pending <=> (r.expected_value # None)

\* the register with the id of r has no expected value and no pending flag
Cleared(registers, r) ==
    \A x \in registers : x.id = r.id => (x.expected_value = None /\ ~x.expected_pending)

\* set_actual_value is called, with value v, on the writable register r whose
\* pending expected value is v
MatchingActual(r) ==
    /\ obs'.op = "set_actual_value" /\ obs'.target = r.id
    /\ Writable(r) /\ r.expected_pending /\ r.expected_value = obs'.result

Places(calls, name) == {i \in DOMAIN calls : calls[i] = name}

\* the places of the sequence requests that hold a request for device
RequestsFor(requests, device) == {i \in DOMAIN requests : requests[i].device = device}

\* C19: in one loop() tick Publisher.loop() is invoked at most once, and not
\* at all when pairing is enabled or the connector is stopped; the Publisher
\* emits at most one request per device in the tick
C19_PublisherOncePerTick ==
    obs.op = "loop" =>
        /\ Cardinality(Places(obs.calls, "Publisher.loop")) <= 1
        /\ (obs.enabled_seen \/ ~obs.running) =>
              ("Publisher.loop" \notin Range(obs.calls) /\ obs.requests = <<>>)
        /\ \A d \in DeviceIds : Cardinality(RequestsFor(obs.requests, d)) <= 1

\* a tick in which the Publisher emitted a request
C19_Witness ==
    /\ RunningTick /\ ~obs.enabled_seen /\ Len(obs.requests) = 1
    /\ "Publisher.loop" \in Range(obs.calls)

\* C20: with addresses 1 and 2 held, of two new devices that reply to
\* discovery one after the other the one that replied first is assigned
\* address 3 and the other address 4.  Finite form: when both are enrolled,
\* these are their addresses in the Registry
C20_AddressesInReplyOrder ==
    (/\ Len(session.order) = 2
     /\ Held \ {registry.devices[sn].address : sn \in Serials} = {1, 2}
     /\ \A sn \in Serials : registry.devices[sn].state = "READY")
        => /\ registry.devices[session.order[1]].address = 3
           /\ registry.devices[session.order[2]].address = 4


\* the enrollment of a device has begun in this session
EnrollmentBegun ==
    \/ pairing.broadcasting_search_finished
    \/ pairing.pairing_device # NoDevice
    \/ session.popped # {}
    \/ session.asked # {}

\* C21: after enable() the search phase makes exactly MAX_SEARCHING_ATTEMPTS
\* SEARCH broadcasts, with or without discovery replies in between: never
\* more, and no device is taken from found_devices and no enrollment frame is
\* sent before the last of them
C21_FiveSearchesThenEnrollment ==
    /\ session.searches <= MAX_SEARCHING_ATTEMPTS
    /\ EnrollmentBegun => session.searches = MAX_SEARCHING_ATTEMPTS

\* a device that replied during the search phase is being enrolled
C21_Witness ==
    /\ session.searches = MAX_SEARCHING_ATTEMPTS
    /\ session.found # {}
    /\ session.asked # {}
    /\ pairing.pairing_device # NoDevice

\* C22: a SEARCH broadcast that follows another request is made at least
\* SEARCHING_DELAY after it, also when a discovery reply arrived in between
C22_SearchEveryDelay ==
    \A i \in DOMAIN obs.gaps : obs.gaps[i] >= SEARCHING_DELAY


\* C23: a device is given up while the reply to its command is awaited only
\* after the command was sent again at least once
C23_RetriedBeforeGivenUp ==
    \A i \in DOMAIN obs.lost : obs.lost[i].waiting => obs.lost[i].attempts >= 2

\* the state of ApiV1Pairing when a device has just been taken from found_devices
FreshDevice ==
    /\ pairing.attempts = 0
    /\ pairing.total_attempts = 0
    /\ pairing.waiting_for_packet = None
    /\ pairing.pairing_cmd = "WRITE_ADDRESS"
    /\ pairing.finished_cmd = {}
    /\ pairing.processing_register_address = NoAddress
    /\ pairing.processing_register_type = None
    /\ \A r \in pairing.pairing_device_registers : r.data_type = "UNKNOWN"

\* C24: the tick that gives a device up drops it; the next device of
\* found_devices, if there is one, is the pairing device with its state reset,
\* else pairing is disabled; the device given up is not made READY in the
\* Registry by this session
C24_DroppedForGood ==
    /\ \A i \in DOMAIN obs.lost :
          /\ pairing.pairing_device.serial_number # obs.lost[i].sn
          /\ IF obs.lost[i].others
             THEN pairing.pairing_device # NoDevice /\ FreshDevice
             ELSE ~is_enabled(World) /\ pairing.pairing_device = NoDevice
    /\ \A sn \in session.lost : registry.devices[sn].state # "READY"


\* C25: a device that was given an address is not given up before a frame was
\* sent to it: when it is dropped, total_attempts, reset when it was taken
\* from found_devices, counts at least its first WRITE_ADDRESS
C25_FrameBeforeGivenUp ==
    \A i \in DOMAIN obs.lost : obs.lost[i].total_attempts >= 1


\* C26: the tick that finds total_attempts at MAX_TOTAL_TRANSMIT_ATTEMPTS
\* sends no frame and leaves pairing disabled: found_devices empty, no pairing
\* device, all counters at 0, no packet awaited
C26_CapTickDisables ==
    obs.capped =>
        /\ obs.sent = <<>>
        /\ ~is_enabled(World)
        /\ pairing.found_devices = {}
        /\ pairing.pairing_device = NoDevice
        /\ pairing.attempts = 0
        /\ pairing.total_attempts = 0
        /\ pairing.waiting_for_packet = None


\* C27: a Pairing.loop() call made while pairing is disabled sends no frame
\* and changes no pairing variable, and only enable() enables pairing
C27_RunsOnlyWhenEnabled ==
    [][/\ (obs'.op = "Pairing.loop" /\ ~is_enabled(World)) =>
             /\ obs'.sent = <<>>
             /\ UNCHANGED <<pairing, clock, frames_sent, session>>
       /\ (~is_enabled(World) /\ pairing'.pairing_enabled) => obs'.op = "enable"]_vars

\* Pairing.loop() was called after a session had ended with pairing disabled
C27_Witness ==
    /\ obs.op = "Pairing.loop"
    /\ ~obs.enabled_seen
    /\ ~is_enabled(World)
    /\ session.searches = MAX_SEARCHING_ATTEMPTS


\* the smallest address of 1..253 no device of the Registry holds
SmallestFree == CHOOSE a \in (1..253) \ Held : \A b \in (1..253) \ Held : a <= b

C29_AddressesUniqueOnBus ==
    \A a, b \in session.written : a[1] # b[1] => a[2] # b[2]


\* C30: a PROVIDE_REGISTER_STRUCTURE or PAIRING_FINISHED frame is sent for a
\* device only after its WRITE_ADDRESS reply was recorded, and a
\* PAIRING_FINISHED frame only when no register of the device has data_type
\* UNKNOWN or its PROVIDE_REGISTER_STRUCTURE was recorded as finished; the
\* replies counted are those recorded since the device was taken from
\* found_devices
C30_CommandsInOrder ==
    \A j \in DOMAIN obs.sent :
        LET f == obs.sent[j]
        IN  /\ f.cmd \in {"PROVIDE_REGISTER_STRUCTURE", "PAIRING_FINISHED"} =>
                  /\ f.sn = pairing.pairing_device.serial_number
                  /\ <<f.sn, "WRITE_ADDRESS">> \in session.acks
            /\ f.cmd = "PAIRING_FINISHED" =>
                  \/ ~has_registers_to_init(World)
                  \/ <<f.sn, "PROVIDE_REGISTER_STRUCTURE">> \in session.acks

\* PAIRING_FINISHED is sent for the second device of a session, the first one
\* having finished its enrollment
C30_Witness ==
    /\ \E j \in DOMAIN obs.sent :
          /\ obs.sent[j].cmd = "PAIRING_FINISHED"
          /\ obs.sent[j].sn = "BBB"
    /\ <<"AAA", "PAIRING_FINISHED">> \in session.acks
    /\ <<"BBB", "PROVIDE_REGISTER_STRUCTURE">> \in session.acks


\* the place of a register in the order INPUT, OUTPUT, ATTRIBUTE, SETTING and,
\* within one kind, ascending address
KindRank(type) ==
    IF type = "INPUT" THEN 0 ELSE IF type = "OUTPUT" THEN 1
    ELSE IF type = "ATTRIBUTE" THEN 2 ELSE 3

Before(type_a, address_a, type_b, address_b) ==
    \/ KindRank(type_a) < KindRank(type_b)
    \/ KindRank(type_a) = KindRank(type_b) /\ address_a < address_b

\* C31: each PROVIDE_REGISTER_STRUCTURE frame names a register of the pairing
\* device that has data_type UNKNOWN, and no register with data_type UNKNOWN
\* comes before it in the order INPUT, OUTPUT, ATTRIBUTE, SETTING, ascending
\* address within a kind
C31_FixedRegisterOrder ==
    \A j \in DOMAIN obs.sent :
        LET f == obs.sent[j]
        IN  f.cmd = "PROVIDE_REGISTER_STRUCTURE" =>
               /\ \E r \in pairing.pairing_device_registers :
                     r.type = f.type /\ r.address = f.reg /\ r.data_type = "UNKNOWN"
               /\ \A r \in pairing.pairing_device_registers :
                     r.data_type = "UNKNOWN" => ~Before(r.type, r.address, f.type, f.reg)


\* the command __move_to_next_cmd is due to choose in world w
NextCommand(w) ==
    IF "WRITE_ADDRESS" \notin w.pairing.finished_cmd THEN "WRITE_ADDRESS"
    ELSE IF "PROVIDE_REGISTER_STRUCTURE" \notin w.pairing.finished_cmd
            /\ has_registers_to_init(w)
    THEN "PROVIDE_REGISTER_STRUCTURE"
    ELSE "PAIRING_FINISHED"

C33_FinishedDeviceLeftAlone ==
    [][/\ session'.finished \ session.finished # {} =>
             /\ pairing'.pairing_device.serial_number \notin
                   (session'.finished \ session.finished)
             /\ pairing'.pairing_device = NoDevice => ~is_enabled(World')
       /\ \A j \in DOMAIN obs'.sent :
             obs'.sent[j].sn \notin session'.finished]_vars


\* C35: discover_device() takes a serial number from found_devices at most
\* once between two calls of enable(), and found_devices never holds a
\* device that was taken before
C35_PoppedAtMostOnce ==
    [][/\ \A i \in DOMAIN obs'.popped : obs'.popped[i].sn \notin session.popped
       /\ \A i, j \in DOMAIN obs'.popped :
             i # j => obs'.popped[i].sn # obs'.popped[j].sn
       /\ \A d \in pairing'.found_devices :
             d.serial_number \notin session'.popped]_vars


\* the records of found_devices with this client id and serial number
FoundWithKey(found_devices, client_id, serial_number) ==
    {record \in found_devices : record.client_id = client_id
                                 /\ record.serial_number = serial_number}

\* C34: found_devices never holds two records with the same client id and
\* serial number; append_device() adds nothing when a record with its key is
\* there and the record it was given otherwise, sets waiting_for_packet to
\* None and changes no other pairing variable
C34_FoundDevicesKeyed ==
    [][/\ \A a, b \in pairing'.found_devices :
             (a.client_id = b.client_id /\ a.serial_number = b.serial_number) => a = b
       /\ obs'.op = "append_device" =>
             /\ pairing' =
                   [pairing EXCEPT
                       !.waiting_for_packet = None,
                       !.found_devices =
                           IF FoundWithKey(@, obs'.target[1], obs'.target[2]) # {}
                           THEN @
                           ELSE @ \cup {[client_id |-> obs'.target[1],
                                         serial_number |-> obs'.target[2],
                                         address |-> obs'.target[3]]}]
             /\ UNCHANGED <<clock, registry, stopped, packets_to_be_sent,
                            receiver_queue, consumer_queue, frames_sent>>]_vars

\* append_device() was given the key of a record that is there, with another
\* address, and added nothing
C34_Witness ==
    /\ obs.op = "append_device"
    /\ obs.target = <<"c2", "BBB", ADDRESS_NOT_ASSIGNED>>
    /\ FoundWithKey(pairing.found_devices, "c2", "BBB")
          = {[client_id |-> "c2", serial_number |-> "BBB", address |-> 7]}
    /\ FoundWithKey(pairing.found_devices, "c1", "BBB") # {}


\* C36: at the end of a step in which discover_device() selected a device the
\* pairing register set holds, for each kind and each address below the size
\* the device advertised for it, exactly one record, and nothing else; every
\* record has data_type UNKNOWN and the id of the Registry's register at its
\* (device, kind, address) when there is one
C36_RegistersRebuilt ==
    [][(/\ obs'.popped # <<>>
        /\ pairing'.pairing_device # NoDevice) =>
          LET sn == pairing'.pairing_device.serial_number
              registers == pairing'.pairing_device_registers
          IN  /\ \A t \in RegisterTypes : \A i \in 0..(RegistersSize(sn, t) - 1) :
                    Cardinality({r \in registers : r.type = t /\ r.address = i}) = 1
              /\ \A r \in registers :
                    /\ r.type \in RegisterTypes
                    /\ r.address \in 0..(RegistersSize(sn, r.type) - 1)
                    /\ r.data_type = "UNKNOWN"
                    /\ \A q \in registry'.registers :
                          (q.device = sn /\ q.type = r.type /\ q.address = r.address)
                             => r.id = q.id
                    /\ (\A q \in registry'.registers :
                          ~(q.device = sn /\ q.type = r.type /\ q.address = r.address))
                             => \A q \in registry'.registers : q.id # r.id]_vars

\* device BBB is selected after device AAA finished its enrollment; its input
\* register 0 has the id of the Registry's register and its setting 0 a new
\* one
C36_Witness ==
    /\ obs.popped # <<>>
    /\ pairing.pairing_device.serial_number = "BBB"
    /\ "AAA" \in session.finished
    /\ \E r \in pairing.pairing_device_registers :
          r.type = "INPUT" /\ r.id = <<"reg", "BBB", "INPUT", 0>>
    /\ \E r \in pairing.pairing_device_registers :
          r.type = "SETTING" /\ r.id = <<"uuid4", "BBB", "SETTING", 0>>


\* C37: send_packet with waiting_time > 0 returns True exactly when one of its
\* polls, all made within waiting_time of the send, reported ACK, and False
\* only after a poll at the end of waiting_time; with waiting_time = 0 it
\* returns True without a poll.  The frames Pairing.loop() sends with a
\* waiting time are the SEARCH and WRITE_ADDRESS broadcasts
C37_AckWaitResult ==
    /\ obs.op = "send_packet" =>
          LET waiting_time == obs.sent[1].wait
              polls == obs.target
          IN  /\ obs.result \in {"True", "False"}
              /\ \A i \in DOMAIN polls : polls[i].at <= waiting_time
              /\ waiting_time > 0 =>
                    /\ obs.result = "True" <=>
                          \E i \in DOMAIN polls : polls[i].status = "ACK"
                    /\ obs.result = "False" =>
                          \E i \in DOMAIN polls : polls[i].at = waiting_time
              /\ waiting_time = 0 => (obs.result = "True" /\ polls = <<>>)
    /\ obs.op = "loop" =>
          \A j \in DOMAIN obs.sent :
              obs.sent[j].wait > 0 <=> obs.sent[j].cmd \in {"SEARCH", "WRITE_ADDRESS"}

\* a send with waiting time returned False after three polls without ACK
C37_Witness ==
    /\ obs.op = "send_packet"
    /\ obs.sent[1].wait = BROADCAST_WAITING_DELAY
    /\ obs.result = "False"
    /\ Len(obs.target) = 3


\* the frames of one Pairing.loop() call carry one command and go to
\* different clients
OneFramePerClient(sent) ==
    \A i, j \in DOMAIN sent :
        /\ sent[i].cmd = sent[j].cmd
        /\ i # j => sent[i].client # sent[j].client

\* a reply is awaited and no cap of attempts and no deadline is reached
AwaitingReply ==
    /\ is_enabled(World)
    /\ pairing.waiting_for_packet # None
    /\ pairing.attempts < MAX_TRANSMIT_ATTEMPTS
    /\ pairing.total_attempts < MAX_TOTAL_TRANSMIT_ATTEMPTS
    /\ clock.age < MAX_PAIRING_DELAY

\* C38 as stated: a Pairing.loop() call sends at most one frame per client, and
\* none while a reply is awaited and neither the attempts cap nor the pairing
\* deadline is reached
C38_SilentWhileAwaiting ==
    [][obs'.op = "Pairing.loop" =>
          /\ OneFramePerClient(obs'.sent)
          /\ AwaitingReply => obs'.sent = <<>>]_vars

\* C38: a Pairing.loop() call sends at most one frame per client; it sends
\* none while a reply is awaited and, a device being enrolled, neither the
\* attempts cap nor the pairing deadline is reached or, during the search,
\* less than SEARCHING_DELAY has passed since the last SEARCH broadcast
C38_SilentWhileAwaitingEnrollment ==
    [][obs'.op = "Pairing.loop" =>
          /\ OneFramePerClient(obs'.sent)
          /\ (/\ AwaitingReply
              /\ \/ pairing.broadcasting_search_finished
                 \/ clock.age < SEARCHING_DELAY) => obs'.sent = <<>>]_vars

\* Pairing.loop() was called while the reply of the device being enrolled was
\* awaited and sent nothing
C38_Witness ==
    /\ obs.op = "Pairing.loop"
    /\ obs.sent = <<>>
    /\ obs.popped = <<>>
    /\ is_enabled(World)
    /\ pairing.pairing_device # NoDevice
    /\ pairing.waiting_for_packet # None
    /\ pairing.pairing_cmd = "PROVIDE_REGISTER_STRUCTURE"


\* C39: attempts is between 0 and MAX_TRANSMIT_ATTEMPTS, total_attempts
\* between 0 and MAX_TOTAL_TRANSMIT_ATTEMPTS, attempts is at most
\* total_attempts, and a pairing device is set only when
\* broadcasting_search_finished is set
C39_CountersInRange ==
    /\ pairing.attempts \in 0..MAX_TRANSMIT_ATTEMPTS
    /\ pairing.total_attempts \in 0..MAX_TOTAL_TRANSMIT_ATTEMPTS
    /\ pairing.attempts <= pairing.total_attempts
    /\ pairing.pairing_device # NoDevice => pairing.broadcasting_search_finished

\* total_attempts has reached its cap while a device is enrolled, attempts
\* being smaller
C39_Witness ==
    /\ pairing.total_attempts = MAX_TOTAL_TRANSMIT_ATTEMPTS
    /\ pairing.pairing_device # NoDevice
    /\ pairing.attempts < MAX_TRANSMIT_ATTEMPTS


\* C40: the list given to send_packet as payload is unchanged when it returns,
\* and the frame built when the same list is given again is the first frame:
\* the payload followed by the two bytes of its CRC and the terminator
C40_PayloadLeftUnchanged ==
    codec.origin = "encoder" =>
        /\ codec.second = <<>> => codec.list = codec.payload
        /\ codec.second # <<>> =>
              /\ codec.second = codec.wire
              /\ codec.second = codec.payload
                                  \o <<crc16(codec.payload) \div 256,
                                       crc16(codec.payload) % 256, TERMINATOR>>

====
